---- MODULE Spec2Model ----
(***************************************************************************)
(* Model of the emotion-detection pipeline:                                *)
(*   - TensorFlowEmotionDetector (utils/emotionDetection): rule-based      *)
(*     scoring, contextual reweighting, temporal smoothing, confidence     *)
(*     calibration and the bounded history buffer;                         *)
(*   - EmotionAnalysisEngine.analyzeEmotions (utils/mediapipe): fusion of  *)
(*     a primary EmotionState with a secondary FaceExpressions estimate.   *)
(*                                                                         *)
(* JavaScript numbers are modelled as exact rationals in lowest terms      *)
(* ([n |-> numerator, d |-> denominator], d > 0), so two equal numbers are *)
(* equal records.  IEEE rounding (relative error about 1e-16) is below     *)
(* every tolerance that is checked here and is not modelled.               *)
(***************************************************************************)
EXTENDS Integers, Sequences, FiniteSets, TLC

(***************************************************************************)
(* Rational arithmetic                                                     *)
(***************************************************************************)
Abs(x) == IF x < 0 THEN -x ELSE x

RECURSIVE GCD(_, _)
GCD(a, b) == IF b = 0 THEN a ELSE GCD(b, a % b)

LCM(a, b) == (a \div GCD(a, b)) * b

\* the rational n/d (d > 0) in lowest terms
Frac(n, d) ==
  LET g == GCD(Abs(n), d)
  IN  [n |-> n \div g, d |-> d \div g]

Zero == Frac(0, 1)
One == Frac(1, 1)

FAdd(a, b) ==
  LET l == LCM(a.d, b.d)
  IN  Frac(a.n * (l \div a.d) + b.n * (l \div b.d), l)

FNeg(a) == [n |-> -a.n, d |-> a.d]

FSub(a, b) == FAdd(a, FNeg(b))

FMul(a, b) ==
  LET g1 == GCD(Abs(a.n), b.d)
      g2 == GCD(Abs(b.n), a.d)
  IN  Frac((a.n \div g1) * (b.n \div g2), (a.d \div g2) * (b.d \div g1))

\* a / b for b > 0
FDiv(a, b) == FMul(a, [n |-> b.d, d |-> b.n])

FLt(a, b) ==
  LET l == LCM(a.d, b.d)
  IN  a.n * (l \div a.d) < b.n * (l \div b.d)

FGt(a, b) == FLt(b, a)
FLe(a, b) == ~FLt(b, a)
FGe(a, b) == ~FLt(a, b)
FAbs(a) == [n |-> Abs(a.n), d |-> a.d]
FMax(a, b) == IF FLt(a, b) THEN b ELSE a      \* Math.max
FMin(a, b) == IF FLt(b, a) THEN b ELSE a      \* Math.min

(***************************************************************************)
(* Labels and ClassScores (EmotionScores)                                  *)
(***************************************************************************)
\* emotionLabels: the seven labels of the detector
emotionLabels == <<"angry", "disgusted", "fearful", "happy", "neutral", "sad", "surprised">>

Labels == {emotionLabels[i] : i \in 1..Len(emotionLabels)}

\* Key order of the object literal in generateBaseEmotionScores
BaseKeyOrder == <<"neutral", "happy", "sad", "angry", "surprised", "fearful", "disgusted">>

RECURSIVE GCDOver(_, _, _)
GCDOver(keys, num, upto) ==
  IF upto = 0 THEN 0 ELSE GCD(GCDOver(keys, num, upto - 1), Abs(num[keys[upto]]))

\* An EmotionScores object: its keys in insertion order and its values, the
\* value of key k being the rational num[k]/den.  The seven values share the
\* denominator, and the whole vector is kept in lowest terms.
Scores(keys, num, den) ==
  LET g == GCD(GCDOver(keys, num, Len(keys)), den)
  IN  [keys |-> keys, num |-> [k \in DOMAIN num |-> num[k] \div g], den |-> den \div g]

\* scores[k]
Val(s, k) == Frac(s.num[k], s.den)

RECURSIVE SumOver(_, _, _)
SumOver(keys, num, upto) ==
  IF upto = 0 THEN 0 ELSE SumOver(keys, num, upto - 1) + num[keys[upto]]

\* the numerator (over s.den) of Object.values(scores).reduce((sum, x) => sum + x, 0)
TotalNum(s) == SumOver(s.keys, s.num, Len(s.keys))

getDefaultScores ==
  Scores(emotionLabels,
         [k \in Labels |-> CASE k = "happy" -> 2 [] k = "neutral" -> 3 [] OTHER -> 1],
         10)

(***************************************************************************)
(* Feature vectors                                                         *)
(***************************************************************************)
Features(fb, fc, ed, r, gm, b, c) ==
  [faceBrightness |-> fb, faceContrast |-> fc, edgeDensity |-> ed,
   red |-> r, gradientMagnitude |-> gm, brightness |-> b, contrast |-> c]

\* a number given in hundredths
Pct(x) == Frac(x, 100)

\* dark face, strong contrast, many edges, red cast
FeatTense == Features(Pct(30), Pct(60), Pct(50), Pct(60), Pct(20), Pct(50), Pct(40))
\* medium face brightness, strong contrast, many edges, red cast
FeatAlert == Features(Pct(50), Pct(60), Pct(50), Pct(60), Pct(20), Pct(50), Pct(40))
\* bright face in a dark frame, strong gradients
FeatBright == Features(Pct(80), Pct(40), Pct(50), Pct(60), Pct(40), Pct(20), Pct(10))
\* evenly lit, flat image: no rule but the neutral one fires
FeatCalm == Features(Pct(50), Pct(20), Pct(20), Pct(30), Pct(20), Pct(50), Pct(10))

(***************************************************************************)
(* BaseScorer and ContextualAdjuster                                       *)
(***************************************************************************)
\* scores[k] += delta
Bump(s, k, delta) ==
  LET l == LCM(s.den, delta.d)
  IN  Scores(s.keys,
             [j \in DOMAIN s.num |->
                s.num[j] * (l \div s.den) + (IF j = k THEN delta.n * (l \div delta.d) ELSE 0)],
             l)

\* scores[k] *= factor
Scale(s, k, factor) ==
  Scores(s.keys,
         [j \in DOMAIN s.num |-> IF j = k THEN s.num[j] * factor.n ELSE s.num[j] * factor.d],
         s.den * factor.d)

\* NormalizeScores without the division
NormalizeScores_Skipped(s) == s

\* "Normalize scores to sum to 1": divide every value by the total when total > 0
NormalizeScores(s) ==
  LET total == TotalNum(s)
  IN  IF total > 0 THEN Scores(s.keys, s.num, total) ELSE s

generateBaseEmotionScores(features) ==
  LET s0 == Scores(BaseKeyOrder, [k \in Labels |-> 1], 10)
      s1 == IF FGt(features.faceBrightness, Frac(6, 10))
            THEN Bump(Bump(s0, "happy", Frac(3, 10)), "neutral", Frac(2, 10))
            ELSE IF FLt(features.faceBrightness, Frac(4, 10))
                 THEN Bump(Bump(s0, "sad", Frac(25, 100)), "neutral", Frac(15, 100))
                 ELSE Bump(s0, "neutral", Frac(4, 10))
      s2 == IF FGt(features.faceContrast, Frac(5, 10))
            THEN Bump(Bump(s1, "surprised", Frac(2, 10)), "angry", Frac(15, 100))
            ELSE s1
      s3 == IF FGt(features.edgeDensity, Frac(4, 10))
            THEN Bump(Bump(s2, "fearful", Frac(2, 10)), "surprised", Frac(15, 100))
            ELSE s2
      s4 == IF FGt(features.red, Frac(5, 10)) /\ FGt(features.faceContrast, Frac(3, 10))
            THEN Bump(s3, "angry", Frac(2, 10))
            ELSE s3
      s5 == IF FGt(features.gradientMagnitude, Frac(3, 10))
            THEN Bump(Bump(s4, "disgusted", Frac(15, 100)), "fearful", Frac(1, 10))
            ELSE s4
  IN  NormalizeScores(s5)

applyContextualAnalysis(baseScores, features) ==
  LET c1 == IF FGt(features.faceBrightness, Frac(7, 10)) /\ FGt(features.red, Frac(4, 10))
            THEN Scale(Scale(baseScores, "happy", Frac(13, 10)), "angry", Frac(12, 10))
            ELSE baseScores
      c2 == IF FGt(features.faceContrast, Frac(5, 10)) /\ FGt(features.edgeDensity, Frac(3, 10))
            THEN Scale(Scale(c1, "surprised", Frac(14, 10)), "fearful", Frac(12, 10))
            ELSE c1
      c3 == IF FLt(features.brightness, Frac(3, 10))
            THEN Scale(Scale(c2, "sad", Frac(13, 10)), "neutral", Frac(11, 10))
            ELSE c2
  IN  NormalizeScores(c3)

(***************************************************************************)
(* TemporalSmoother                                                        *)
(***************************************************************************)
bufferSize == 5

\* PushSmoothing with pop() in place of shift(): the newest entry is dropped
PushSmoothing_EvictsNewest(buffer, currentScores) ==
  IF Len(buffer) + 1 > bufferSize THEN buffer ELSE Append(buffer, currentScores)

\* smoothingBuffer.push(currentScores); shift() when longer than bufferSize
PushSmoothing(buffer, currentScores) ==
  LET pushed == Append(buffer, currentScores)
  IN  IF Len(pushed) > bufferSize THEN Tail(pushed) ELSE pushed

\* SmoothingWeight with every entry weighted alike
SmoothingWeight_Uniform(i, len) == [n |-> 1, d |-> len]

\* `(index + 1) / this.smoothingBuffer.length` for the entry at index i - 1,
\* as the pair numerator, denominator
SmoothingWeight(i, len) == [n |-> i, d |-> len]

RECURSIVE LCMOfDens(_, _)
LCMOfDens(buffer, upto) ==
  IF upto = 0 THEN 1 ELSE LCM(LCMOfDens(buffer, upto - 1), buffer[upto].den)

\* weightedSum for one key, as a numerator over common * Len(buffer)
RECURSIVE WeightedSumNum(_, _, _, _)
WeightedSumNum(buffer, key, common, upto) ==
  IF upto = 0 THEN 0
  ELSE WeightedSumNum(buffer, key, common, upto - 1)
       + buffer[upto].num[key] * (common \div buffer[upto].den)
         * SmoothingWeight(upto, Len(buffer)).n

\* TotalWeightNum with the weights taken to sum to 1
TotalWeightNum_Unit(len, upto) == len

\* totalWeight, as a numerator over Len(buffer)
RECURSIVE TotalWeightNum(_, _)
TotalWeightNum(len, upto) ==
  IF upto = 0 THEN 0 ELSE TotalWeightNum(len, upto - 1) + SmoothingWeight(upto, len).n

\* the value returned by applySmoothingFilter, given the buffer after the push:
\* smoothedScores[key] = weightedSum / totalWeight when the buffer holds more
\* than one entry
SmoothedScores(buffer, currentScores) ==
  IF Len(buffer) > 1
  THEN LET len == Len(buffer)
           common == LCMOfDens(buffer, len)
           weightDen == SmoothingWeight(1, len).d
       IN  Scores(currentScores.keys,
                  [k \in DOMAIN currentScores.num |->
                     WeightedSumNum(buffer, k, common, len) * weightDen],
                  (common * weightDen) * TotalWeightNum(len, len))
  ELSE currentScores

\* applySmoothingFilter working on a copy of the buffer
applySmoothingFilter_OnCopy(buffer, currentScores) ==
  LET newBuffer == PushSmoothing(buffer, currentScores)
  IN  [buffer |-> buffer, scores |-> SmoothedScores(newBuffer, currentScores)]

\* applySmoothingFilter: the new buffer and the returned scores
applySmoothingFilter(buffer, currentScores) ==
  LET newBuffer == PushSmoothing(buffer, currentScores)
  IN  [buffer |-> newBuffer, scores |-> SmoothedScores(newBuffer, currentScores)]

(***************************************************************************)
(* ConfidenceCalibrator                                                    *)
(***************************************************************************)
\* a confidenceThreshold of 0.5
confidenceThreshold_Half == Frac(5, 10)

confidenceThreshold == Frac(6, 10)

\* Object.values(scores), as numerators over scores.den
ObjectValues(s) == [i \in 1..Len(s.keys) |-> s.num[s.keys[i]]]

\* index of the first largest element of a non-empty sequence of integers
FirstMaxIndex(s) ==
  CHOOSE i \in 1..Len(s) :
    /\ \A j \in 1..Len(s) : s[j] <= s[i]
    /\ \A j \in 1..(i - 1) : s[j] < s[i]

RemoveAt(s, i) == SubSeq(s, 1, i - 1) \o SubSeq(s, i + 1, Len(s))

\* Array.prototype.sort((a, b) => b - a)
RECURSIVE SortDescending(_)
SortDescending(s) ==
  IF s = <<>> THEN <<>>
  ELSE LET i == FirstMaxIndex(s)
       IN  <<s[i]>> \o SortDescending(RemoveAt(s, i))

\* calculateStabilityBonus counting the entries equal to the oldest of the five
calculateStabilityBonus_OfOldest(history) ==
  IF Len(history) < 5 THEN Zero
  ELSE LET recentEmotions == SubSeq(history, Len(history) - 4, Len(history))
           sameEmotionCount ==
             Cardinality({i \in 1..5 : recentEmotions[i].emotion = recentEmotions[1].emotion})
       IN  FMul(Frac(sameEmotionCount, 5), Frac(1, 10))

calculateStabilityBonus(history) ==
  IF Len(history) < 5 THEN Zero
  ELSE LET recentEmotions == SubSeq(history, Len(history) - 4, Len(history))
           dominantEmotion == recentEmotions[Len(recentEmotions)].emotion
           sameEmotionCount ==
             Cardinality({i \in 1..Len(recentEmotions) : recentEmotions[i].emotion = dominantEmotion})
       IN  FMul(Frac(sameEmotionCount, 5), Frac(1, 10))

\* ClampConfidence without the upper bound
ClampConfidence_NoUpper(x) == FMax(Frac(1, 10), x)

\* Math.max(0.1, Math.min(0.95, x))
ClampConfidence(x) == FMax(Frac(1, 10), FMin(Frac(95, 100), x))

\* adjustConfidence without the confidence-threshold step
adjustConfidence_NoThreshold(rawConfidence, scores, history) ==
  LET sortedScores == SortDescending(ObjectValues(scores))
      gap == Frac(sortedScores[1] - sortedScores[2], scores.den)
      adjusted0 == FAdd(FAdd(rawConfidence, FMul(gap, Frac(3, 10))),
                        calculateStabilityBonus(history))
  IN  ClampConfidence(adjusted0)

adjustConfidence(rawConfidence, scores, history) ==
  LET sortedScores == SortDescending(ObjectValues(scores))
      gap == Frac(sortedScores[1] - sortedScores[2], scores.den)
      gapBonus == FMul(gap, Frac(3, 10))
      stabilityBonus == calculateStabilityBonus(history)
      adjusted0 == FAdd(FAdd(rawConfidence, gapBonus), stabilityBonus)
      adjusted1 == IF FLt(adjusted0, confidenceThreshold)
                   THEN FMax(Frac(3, 10), FMul(adjusted0, Frac(8, 10)))
                   ELSE adjusted0
  IN  ClampConfidence(adjusted1)

(***************************************************************************)
(* HistoryTracker                                                          *)
(***************************************************************************)
maxHistorySize == 100

\* updateEmotionHistory with pop() in place of shift()
updateEmotionHistory_EvictsNewest(history, prediction, features) ==
  IF Len(history) + 1 > maxHistorySize
  THEN history
  ELSE Append(history, [emotion |-> prediction.emotion,
                        confidence |-> prediction.confidence,
                        timestamp |-> prediction.timestamp,
                        features |-> features])

updateEmotionHistory(history, prediction, features) ==
  LET pushed == Append(history, [emotion |-> prediction.emotion,
                                 confidence |-> prediction.confidence,
                                 timestamp |-> prediction.timestamp,
                                 features |-> features])
  IN  IF Len(pushed) > maxHistorySize THEN Tail(pushed) ELSE pushed

(***************************************************************************)
(* Frames                                                                  *)
(***************************************************************************)
\* A canvas as the detector sees it:
\*   kind "ok"        getContext('2d') and getImageData succeed;
\*   kind "noContext" getContext('2d') returns null;
\*   kind "tainted"   getImageData throws (tainted or zero-sized canvas);
\* features is the feature vector of the preprocessed frame with the detected
\* face region, raw the one of the unprocessed frame with the fixed 60% crop.
Canvas(kind, features, raw) == [kind |-> kind, features |-> features, raw |-> raw]

CanvasTense == Canvas("ok", FeatTense, FeatCalm)
CanvasAlert == Canvas("ok", FeatAlert, FeatCalm)
CanvasBright == Canvas("ok", FeatBright, FeatBright)
CanvasNoContext == Canvas("noContext", FeatCalm, FeatCalm)
CanvasTainted == Canvas("tainted", FeatCalm, FeatCalm)

Canvases == {CanvasTense, CanvasAlert, CanvasBright, CanvasNoContext, CanvasTainted}

\* the frames of the detector's general specification
FrameInputs == {CanvasTense, CanvasBright, CanvasNoContext, CanvasTainted}

getDefaultFacialFeatures ==
  [eyeOpenness |-> Frac(1, 2), mouthCurvature |-> Frac(1, 2), eyebrowPosition |-> Frac(1, 2),
   jawTension |-> Frac(1, 2), cheekRaise |-> Frac(1, 2), noseScrunch |-> Frac(1, 2)]

\* extractFacialFeatures on a canvas whose image data can be read
extractFacialFeatures(canvas) ==
  IF canvas.kind = "noContext" THEN getDefaultFacialFeatures
  ELSE [eyeOpenness |-> FMin(One, FMul(canvas.raw.brightness, Frac(15, 10))),
        mouthCurvature |-> FMin(One, FMul(canvas.raw.red, Frac(2, 1))),
        eyebrowPosition |-> FMin(One, FMul(canvas.raw.contrast, Frac(2, 1))),
        jawTension |-> FMin(One, FMul(canvas.raw.edgeDensity, Frac(3, 1))),
        cheekRaise |-> FMin(One, FMul(canvas.raw.faceBrightness, Frac(12, 10))),
        noseScrunch |-> FMin(One, FMul(canvas.raw.faceContrast, Frac(15, 10)))]

\* analyzeImageForEmotions on a canvas whose image data can be read: the base
\* scores (none without a 2d context) and the scores returned
analyzeImageForEmotions(canvas) ==
  IF canvas.kind = "noContext"
  THEN [hasBase |-> FALSE, base |-> getDefaultScores, contextual |-> getDefaultScores]
  ELSE LET baseScores == generateBaseEmotionScores(canvas.features)
       IN  [hasBase |-> TRUE, base |-> baseScores,
            contextual |-> applyContextualAnalysis(baseScores, canvas.features)]

\* "Find the emotion with highest probability": the forEach over
\* Object.entries, from maxProb = 0 and dominantEmotion = 'neutral'; maxNum is
\* the numerator of maxProb over scores.den
RECURSIVE DominantUpTo(_, _)
DominantUpTo(scores, upto) ==
  IF upto = 0 THEN [maxNum |-> 0, dominantEmotion |-> "neutral"]
  ELSE LET prev == DominantUpTo(scores, upto - 1)
           emotion == scores.keys[upto]
       IN  IF scores.num[emotion] > prev.maxNum
           THEN [maxNum |-> scores.num[emotion], dominantEmotion |-> emotion]
           ELSE prev

\* DominantOf that tracks maxProb but never updates dominantEmotion
DominantOf_KeepsDefault(scores) ==
  LET d == DominantUpTo(scores, Len(scores.keys))
  IN  [maxProb |-> Frac(d.maxNum, scores.den), dominantEmotion |-> "neutral"]

DominantOf(scores) ==
  LET d == DominantUpTo(scores, Len(scores.keys))
  IN  [maxProb |-> Frac(d.maxNum, scores.den), dominantEmotion |-> d.dominantEmotion]

\* the analysis of every canvas
AnalysisOf == [c \in Canvases |-> analyzeImageForEmotions(c)]

FacialFeaturesOf == [c \in Canvases |-> extractFacialFeatures(c)]

(***************************************************************************)
(* FaceExpressions (the secondary estimate)                                *)
(***************************************************************************)
FACE_EXPRESSION_LABELS ==
  <<"neutral", "happy", "sad", "angry", "fearful", "disgusted", "surprised">>

FaceLabels == {FACE_EXPRESSION_LABELS[i] : i \in 1..Len(FACE_EXPRESSION_LABELS)}

\* FaceExpressions with `probabilities.length < 7` as the length check
FaceExpressions_AcceptsLonger(probabilities) ==
  IF Len(probabilities) < 7
  THEN [threw |-> TRUE]
  ELSE [threw |-> FALSE,
        prob |-> [k \in FaceLabels |->
                    probabilities[CHOOSE i \in 1..7 : FACE_EXPRESSION_LABELS[i] = k]]]

\* new FaceExpressions(probabilities): throws unless there are 7 probabilities,
\* else the i-th probability becomes the field named by the i-th label
FaceExpressions(probabilities) ==
  IF Len(probabilities) # 7
  THEN [threw |-> TRUE]
  ELSE [threw |-> FALSE,
        prob |-> [k \in FaceLabels |->
                    probabilities[CHOOSE i \in 1..7 : FACE_EXPRESSION_LABELS[i] = k]]]

\* index of the first entry with the largest probability
FirstMostProbable(entries) ==
  CHOOSE i \in 1..Len(entries) :
    /\ \A j \in 1..Len(entries) : FLe(entries[j].probability, entries[i].probability)
    /\ \A j \in 1..(i - 1) : FLt(entries[j].probability, entries[i].probability)

\* the (stable) sort((e0, e1) => e1.probability - e0.probability)
RECURSIVE SortByProbability(_)
SortByProbability(entries) ==
  IF entries = <<>> THEN <<>>
  ELSE LET i == FirstMostProbable(entries)
       IN  <<entries[i]>> \o SortByProbability(RemoveAt(entries, i))

asSortedArray(fe) ==
  SortByProbability([i \in 1..Len(FACE_EXPRESSION_LABELS) |->
                       [expression |-> FACE_EXPRESSION_LABELS[i],
                        probability |-> fe.prob[FACE_EXPRESSION_LABELS[i]]]])

getDominantExpression(fe) ==
  LET sorted == asSortedArray(fe)
  IN  [expression |-> sorted[1].expression, confidence |-> sorted[1].probability]

(***************************************************************************)
(* FusionEngine (EmotionAnalysisEngine)                                    *)
(***************************************************************************)
CONFIDENCE_THRESHOLD_HIGH == Frac(8, 10)
CONFIDENCE_THRESHOLD_MEDIUM == Frac(6, 10)
AGREEMENT_BONUS == Frac(15, 100)

\* key order of the score objects the engine builds
StateKeyOrder == <<"neutral", "happy", "sad", "angry", "surprised", "fearful", "disgust">>

StateLabels == {StateKeyOrder[i] : i \in 1..Len(StateKeyOrder)}

\* an absent optional argument
Undefined == [undefined |-> TRUE]

createEmotionMapping ==
  [k \in FaceLabels |-> IF k = "disgusted" THEN "disgust" ELSE k]

\* emotionMapping[expression] || 'neutral'
MappedEmotion(expression) ==
  IF expression \in DOMAIN createEmotionMapping THEN createEmotionMapping[expression]
  ELSE "neutral"

getEmotionIcon(emotion) ==
  IF emotion \in StateLabels THEN <<"icon", emotion>> ELSE <<"icon", "neutral">>

\* getReliabilityLevel with > in place of >=
getReliabilityLevel_Strict(confidence) ==
  IF FGt(confidence, CONFIDENCE_THRESHOLD_HIGH) THEN "high"
  ELSE IF FGt(confidence, CONFIDENCE_THRESHOLD_MEDIUM) THEN "medium"
  ELSE "low"

getReliabilityLevel(confidence) ==
  IF FGe(confidence, CONFIDENCE_THRESHOLD_HIGH) THEN "high"
  ELSE IF FGe(confidence, CONFIDENCE_THRESHOLD_MEDIUM) THEN "medium"
  ELSE "low"

createEmotionStateFromTensorFlow(tfEmotion, time) ==
  LET dominant == getDominantExpression(tfEmotion)
      mappedEmotion == MappedEmotion(dominant.expression)
  IN  [dominant |-> mappedEmotion,
       confidence |-> dominant.confidence,
       scores |-> [k \in StateLabels |->
                     IF k = "disgust" THEN tfEmotion.prob["disgusted"] ELSE tfEmotion.prob[k]],
       icon |-> getEmotionIcon(mappedEmotion),
       timestamp |-> time]

\* `scores.key || 0`
ScoreOrZero(scores, k) == IF k \in DOMAIN scores THEN scores[k] ELSE Zero

\* the reduce over Object.entries(blendedScores), from {emotion: 'neutral', score: 0}
RECURSIVE BlendedDominantUpTo(_, _)
BlendedDominantUpTo(blendedScores, upto) ==
  IF upto = 0 THEN [emotion |-> "neutral", score |-> Zero]
  ELSE LET max == BlendedDominantUpTo(blendedScores, upto - 1)
           emotion == StateKeyOrder[upto]
       IN  IF FGt(blendedScores[emotion], max.score)
           THEN [emotion |-> emotion, score |-> blendedScores[emotion]]
           ELSE max

blendEmotionStates(mediapipeEmotion, tensorflowEmotion, time) ==
  LET mpWeight == Frac(6, 10)
      tfWeight == Frac(4, 10)
      blendedScores ==
        [k \in StateLabels |->
           FAdd(FMul(ScoreOrZero(mediapipeEmotion.scores, k), mpWeight),
                FMul(tensorflowEmotion.prob[IF k = "disgust" THEN "disgusted" ELSE k], tfWeight))]
      dominantEmotion == BlendedDominantUpTo(blendedScores, Len(StateKeyOrder))
  IN  [dominant |-> dominantEmotion.emotion,
       confidence |-> dominantEmotion.score,
       scores |-> blendedScores,
       icon |-> getEmotionIcon(dominantEmotion.emotion),
       timestamp |-> time]

\* AgreementConfidence without Math.min(..., 1.0)
AgreementConfidence_Uncapped(mpConfidence, tfConfidence) ==
  FAdd(FDiv(FAdd(mpConfidence, tfConfidence), Frac(2, 1)), AGREEMENT_BONUS)

\* "Systems agree - boost confidence"
AgreementConfidence(mpConfidence, tfConfidence) ==
  FMin(FAdd(FDiv(FAdd(mpConfidence, tfConfidence), Frac(2, 1)), AGREEMENT_BONUS), One)

\* LargeGapResult with Math.min in place of Math.max
LargeGapResult_TakesMin(result, mediapipeEmotion, tensorflowEmotion, tfDominant, time) ==
  LET swapped ==
        IF FGt(tfDominant.confidence, mediapipeEmotion.confidence)
        THEN [result EXCEPT !.primary = createEmotionStateFromTensorFlow(tensorflowEmotion, time),
                            !.hasSecondary = TRUE,
                            !.secondary = mediapipeEmotion]
        ELSE result
  IN  [swapped EXCEPT !.confidence = FMin(mediapipeEmotion.confidence, tfDominant.confidence)]

\* "Significant difference - use the more confident one"
LargeGapResult(result, mediapipeEmotion, tensorflowEmotion, tfDominant, time) ==
  LET swapped ==
        IF FGt(tfDominant.confidence, mediapipeEmotion.confidence)
        THEN [result EXCEPT !.primary = createEmotionStateFromTensorFlow(tensorflowEmotion, time),
                            !.hasSecondary = TRUE,
                            !.secondary = mediapipeEmotion]
        ELSE result
  IN  [swapped EXCEPT !.confidence = FMax(mediapipeEmotion.confidence, tfDominant.confidence)]

\* SmallGapResult with the two weights exchanged
SmallGapResult_SwapsWeights(result, mediapipeEmotion, tensorflowEmotion, tfDominant, time) ==
  [result EXCEPT
     !.confidence = FAdd(FMul(mediapipeEmotion.confidence, Frac(4, 10)),
                         FMul(tfDominant.confidence, Frac(6, 10))),
     !.primary = blendEmotionStates(mediapipeEmotion, tensorflowEmotion, time)]

\* "Similar confidence - use weighted average"
SmallGapResult(result, mediapipeEmotion, tensorflowEmotion, tfDominant, time) ==
  [result EXCEPT
     !.confidence = FAdd(FMul(mediapipeEmotion.confidence, Frac(6, 10)),
                         FMul(tfDominant.confidence, Frac(4, 10))),
     !.primary = blendEmotionStates(mediapipeEmotion, tensorflowEmotion, time)]

\* DisagreementReliability without the penalty
DisagreementReliability_NoPenalty(confidence) == getReliabilityLevel(confidence)

\* "Reduce reliability due to disagreement"
DisagreementReliability(confidence) == getReliabilityLevel(FMul(confidence, Frac(8, 10)))

\* analyzeEmotions(mediapipeEmotion, tensorflowEmotion?) at clock time `time`;
\* hasSecondary tells whether the result has a `secondary` field
analyzeEmotions(mediapipeEmotion, tensorflowEmotion, time) ==
  LET result == [primary |-> mediapipeEmotion,
                 hasSecondary |-> FALSE,
                 secondary |-> Undefined,
                 confidence |-> mediapipeEmotion.confidence,
                 reliability |-> "low",
                 sources |-> [mediapipe |-> TRUE,
                              tensorflow |-> tensorflowEmotion # Undefined]]
  IN  IF tensorflowEmotion = Undefined
      THEN [result EXCEPT !.reliability = getReliabilityLevel(mediapipeEmotion.confidence)]
      ELSE
        LET tfDominant == getDominantExpression(tensorflowEmotion)
            tfMappedEmotion == MappedEmotion(tfDominant.expression)
            systemsAgree == mediapipeEmotion.dominant = tfMappedEmotion
        IN  IF systemsAgree
            THEN LET confidence ==
                       AgreementConfidence(mediapipeEmotion.confidence, tfDominant.confidence)
                 IN  [result EXCEPT !.confidence = confidence,
                                    !.reliability = getReliabilityLevel(confidence)]
            ELSE LET confidenceDiff ==
                       FAbs(FSub(mediapipeEmotion.confidence, tfDominant.confidence))
                     fused ==
                       IF FGt(confidenceDiff, Frac(3, 10))
                       THEN LargeGapResult(result, mediapipeEmotion, tensorflowEmotion,
                                           tfDominant, time)
                       ELSE SmallGapResult(result, mediapipeEmotion, tensorflowEmotion,
                                           tfDominant, time)
                 IN  [fused EXCEPT
                        !.reliability = DisagreementReliability(fused.confidence)]

(***************************************************************************)
(* State                                                                   *)
(***************************************************************************)
VARIABLES
  isInitialized,       \* TensorFlowEmotionDetector.isInitialized
  model,               \* TRUE when this.model is not null
  faceDetectionModel,  \* TRUE when this.faceDetectionModel is not null
  frameCount,          \* this.frameCount
  lastEmotionScores,   \* this.lastEmotionScores (Null or an EmotionScores)
  emotionHistory,      \* this.emotionHistory
  smoothingBuffer,     \* this.smoothingBuffer
  now,                 \* the value the next Date.now() returns
  result,              \* what the last call returned or threw
  stage,               \* the scores the last analysis produced, stage by stage
  pushedScores,        \* every EmotionScores pushed onto smoothingBuffer since it was empty
  pushedHistory,       \* every entry appended to emotionHistory since it was empty
  fusionArgs,          \* the arguments of the last analyzeEmotions call
  fusionResult,        \* the EmotionAnalysisResult it returned
  calibArgs,           \* the scores and history given to adjustConfidence
  calibResult,         \* the confidence adjustConfidence returned for them
  initCalls,           \* where each initialize() call that is in flight stands
  modelsCreated,       \* how often those calls ran createEnhancedEmotionModel
  faceModelsCreated,   \* how often those calls ran createFaceDetectionModel
  probabilities,       \* the argument of the last `new FaceExpressions(...)`
  faceExpressions,     \* the object it built, or that it threw
  imageData,           \* the frame given to extractAdvancedFeatures
  features,            \* the feature vector extracted from it
  secondaryModel,      \* TRUE when the secondary estimator's this.model is not null
  isModelLoading,      \* the secondary estimator's this.isModelLoading
  loadCalls,           \* where each loadModel() call issued so far stands
  secondaryModelsCreated,  \* how often this.model was assigned since the last dispose()
  emotionDetection,    \* the useEmotionDetection hook: its prop, refs, state and pending work
  realTimeDetection    \* the useRealTimeEmotionDetection hook, likewise

detectorVars == <<isInitialized, model, faceDetectionModel, frameCount, lastEmotionScores,
                  emotionHistory, smoothingBuffer, now, result, stage, pushedScores,
                  pushedHistory>>

fusionVars == <<fusionArgs, fusionResult>>

calibVars == <<calibArgs, calibResult>>

asyncVars == <<initCalls, modelsCreated, faceModelsCreated>>

loaderVars == <<secondaryModel, isModelLoading, loadCalls, secondaryModelsCreated>>

\* the units that are exercised apart from the detector
hookVars == <<emotionDetection, realTimeDetection>>

unitVars == <<probabilities, faceExpressions, imageData, features, loaderVars, hookVars>>

\* the variables the methods of the detector, run to completion, leave alone
pureVars == <<fusionVars, calibVars, asyncVars, unitVars>>

vars == <<detectorVars, fusionVars, calibVars, asyncVars, unitVars>>

Null == [null |-> TRUE]

NoStage == [kind |-> "none"]

\* the state right after `new TensorFlowEmotionDetector()`
DetectorConstructed ==
  /\ isInitialized = FALSE
  /\ model = FALSE
  /\ faceDetectionModel = FALSE
  /\ frameCount = 0
  /\ lastEmotionScores = Null
  /\ emotionHistory = <<>>
  /\ smoothingBuffer = <<>>
  /\ now = 1
  /\ result = [op |-> "new", kind |-> "return"]
  /\ stage = NoStage
  /\ pushedScores = <<>>
  /\ pushedHistory = <<>>
  /\ initCalls = <<>>
  /\ modelsCreated = 0
  /\ faceModelsCreated = 0

FusionIdle ==
  /\ fusionArgs = Null
  /\ fusionResult = Null

\* the secondary estimator after construction
LoaderIdle ==
  /\ secondaryModel = FALSE
  /\ isModelLoading = FALSE
  /\ loadCalls = <<>>
  /\ secondaryModelsCreated = 0

\* each hook after its first render with isActive = false: no effect has
\* started anything
HooksIdle ==
  /\ emotionDetection =
       [isActive |-> FALSE, mounted |-> TRUE, isInitializedRef |-> FALSE,
        faceLandmarkerRef |-> FALSE, animationFramePending |-> FALSE,
        initRuns |-> <<>>, detections |-> 0, emotionState |-> "initial"]
  /\ realTimeDetection =
       [isActive |-> FALSE, mounted |-> TRUE, isInitialized |-> FALSE,
        detectorRef |-> FALSE, canvasRef |-> FALSE, initializing |-> "idle",
        tasks |-> <<>>, startedAfterUnmount |-> FALSE, emotionState |-> "initial"]

UnitsIdle ==
  /\ probabilities = Null
  /\ faceExpressions = Null
  /\ imageData = Null
  /\ features = Null
  /\ LoaderIdle
  /\ HooksIdle

CalibratorIdle ==
  /\ calibArgs = Null
  /\ calibResult = Null

(***************************************************************************)
(* Detector lifecycle                                                      *)
(***************************************************************************)
\* How a run of initialize() that gets past its first line ends: "modelFails"
\* when the backend or the emotion model cannot be created (nothing is
\* assigned), "faceModelFails" when createFaceDetectionModel rejects
InitOutcomes == {"ok", "modelFails", "faceModelFails"}

\* initialize(): the fields after the call and whether it threw
initialize(init, mdl, face, outcome) ==
  IF init THEN [isInitialized |-> init, model |-> mdl, face |-> face, threw |-> FALSE]
  ELSE CASE outcome = "ok" ->
              [isInitialized |-> TRUE, model |-> TRUE, face |-> TRUE, threw |-> FALSE]
         [] outcome = "modelFails" ->
              [isInitialized |-> FALSE, model |-> mdl, face |-> face, threw |-> TRUE]
         [] outcome = "faceModelFails" ->
              [isInitialized |-> FALSE, model |-> TRUE, face |-> face, threw |-> TRUE]

\* `if (!this.isInitialized || !this.model) await this.initialize()`
EnsureInitialized(outcome) ==
  IF ~isInitialized \/ ~model
  THEN initialize(isInitialized, model, faceDetectionModel, outcome)
  ELSE [isInitialized |-> isInitialized, model |-> model, face |-> faceDetectionModel,
        threw |-> FALSE]

\* the outcomes that matter in the current state (one when no model is built)
OutcomesNow(needed) == IF needed THEN InitOutcomes ELSE {"ok"}

Initialize(outcome) ==
  LET r == initialize(isInitialized, model, faceDetectionModel, outcome)
  IN  /\ isInitialized' = r.isInitialized
      /\ model' = r.model
      /\ faceDetectionModel' = r.face
      /\ result' = [op |-> "initialize", kind |-> IF r.threw THEN "throw" ELSE "return"]
      /\ UNCHANGED <<frameCount, lastEmotionScores, emotionHistory, smoothingBuffer, now,
                     stage, pushedScores, pushedHistory, pureVars>>

\* dispose() without `this.emotionHistory = []; this.smoothingBuffer = []`
Dispose_KeepsBuffers ==
  /\ model' = FALSE
  /\ faceDetectionModel' = FALSE
  /\ isInitialized' = FALSE
  /\ lastEmotionScores' = Null
  /\ frameCount' = 0
  /\ result' = [op |-> "dispose", kind |-> "return"]
  /\ stage' = NoStage
  /\ UNCHANGED <<emotionHistory, smoothingBuffer, pushedScores, pushedHistory, now, pureVars>>

Dispose ==
  /\ model' = FALSE
  /\ faceDetectionModel' = FALSE
  /\ isInitialized' = FALSE
  /\ lastEmotionScores' = Null
  /\ emotionHistory' = <<>>
  /\ smoothingBuffer' = <<>>
  /\ frameCount' = 0
  /\ result' = [op |-> "dispose", kind |-> "return"]
  /\ stage' = NoStage
  /\ pushedScores' = <<>>
  /\ pushedHistory' = <<>>
  /\ UNCHANGED <<now, pureVars>>

(***************************************************************************)
(* detectEmotion and getDetailedEmotionScores                              *)
(***************************************************************************)
\* The clock advances by one with every frame that is processed; a run
\* processes at most MaxFrames frames.
MaxFrames == 3

FramesLeft(max) == now <= max

\* the body of detectEmotion's try block on a readable canvas; the locals
\* smoothedScores, maxProb/dominantEmotion and adjustedConfidence are each
\* computed once, in the order of the code
DetectComputed(canvas) ==
  \E analysis \in {AnalysisOf[canvas]} :
  \E smoothing \in {applySmoothingFilter(smoothingBuffer, analysis.contextual)} :
  \E dom \in {DominantOf(smoothing.scores)} :
  \E adjustedConfidence \in {adjustConfidence(dom.maxProb, smoothing.scores, emotionHistory)} :
  \E entry \in {[emotion |-> dom.dominantEmotion,
                 confidence |-> adjustedConfidence,
                 timestamp |-> now,
                 features |-> FacialFeaturesOf[canvas]]} :
    /\ smoothingBuffer' = smoothing.buffer
    /\ pushedScores' = Append(pushedScores, analysis.contextual)
    /\ lastEmotionScores' = smoothing.scores
    /\ emotionHistory' = updateEmotionHistory(emotionHistory,
                                              [emotion |-> entry.emotion,
                                               confidence |-> entry.confidence,
                                               timestamp |-> entry.timestamp],
                                              entry.features)
    /\ pushedHistory' = Append(pushedHistory, entry)
    /\ now' = now + 1
    /\ stage' = [kind |-> "detect", hasBase |-> analysis.hasBase,
                 base |-> analysis.base,
                 contextual |-> analysis.contextual,
                 smoothed |-> smoothing.scores]
    /\ result' = [op |-> "detectEmotion", kind |-> "return", computed |-> TRUE,
                  value |-> [emotion |-> entry.emotion,
                             confidence |-> entry.confidence,
                             timestamp |-> entry.timestamp]]

\* DetectFallback with `throw error` in the catch block
DetectFallback_Rethrows ==
  /\ result' = [op |-> "detectEmotion", kind |-> "throw"]
  /\ now' = now + 1
  /\ stage' = NoStage
  /\ UNCHANGED <<lastEmotionScores, emotionHistory, smoothingBuffer, pushedScores,
                 pushedHistory>>

\* the catch block of detectEmotion, were it to reset the buffers as well
DetectFallback_ResetsBuffers ==
  /\ result' = [op |-> "detectEmotion", kind |-> "return", computed |-> FALSE,
                value |-> [emotion |-> "neutral", confidence |-> Frac(5, 10),
                           timestamp |-> now]]
  /\ now' = now + 1
  /\ stage' = NoStage
  /\ emotionHistory' = <<>>
  /\ smoothingBuffer' = <<>>
  /\ pushedScores' = <<>>
  /\ pushedHistory' = <<>>
  /\ UNCHANGED lastEmotionScores

\* the catch block of detectEmotion
DetectFallback ==
  /\ result' = [op |-> "detectEmotion", kind |-> "return", computed |-> FALSE,
                value |-> [emotion |-> "neutral", confidence |-> Frac(5, 10),
                           timestamp |-> now]]
  /\ now' = now + 1
  /\ stage' = NoStage
  /\ UNCHANGED <<lastEmotionScores, emotionHistory, smoothingBuffer, pushedScores,
                 pushedHistory>>

DetectEmotion(canvas, outcome, max) ==
  \E r \in {EnsureInitialized(outcome)} :
    /\ FramesLeft(max)
    /\ isInitialized' = r.isInitialized
    /\ model' = r.model
    /\ faceDetectionModel' = r.face
    /\ UNCHANGED pureVars
    /\ IF r.threw
       THEN /\ result' = [op |-> "detectEmotion", kind |-> "throw"]
            /\ UNCHANGED <<frameCount, lastEmotionScores, emotionHistory, smoothingBuffer,
                           now, stage, pushedScores, pushedHistory>>
       ELSE /\ frameCount' = frameCount + 1
            /\ IF canvas.kind = "tainted" THEN DetectFallback ELSE DetectComputed(canvas)

GetDetailedEmotionScores(canvas, outcome, max) ==
  \E r \in {EnsureInitialized(outcome)} :
  \E analysis \in {AnalysisOf[canvas]} :
  \E smoothing \in {applySmoothingFilter(smoothingBuffer, analysis.contextual)} :
    /\ FramesLeft(max)
    /\ isInitialized' = r.isInitialized
    /\ model' = r.model
    /\ faceDetectionModel' = r.face
    /\ UNCHANGED <<frameCount, lastEmotionScores, emotionHistory, pushedHistory, pureVars>>
    /\ IF r.threw
       THEN /\ result' = [op |-> "getDetailedEmotionScores", kind |-> "throw"]
            /\ UNCHANGED <<smoothingBuffer, now, stage, pushedScores>>
       ELSE IF canvas.kind = "tainted"
            THEN /\ result' = [op |-> "getDetailedEmotionScores", kind |-> "return",
                               computed |-> FALSE, value |-> getDefaultScores]
                 /\ stage' = NoStage
                 /\ now' = now + 1
                 /\ UNCHANGED <<smoothingBuffer, pushedScores>>
            ELSE /\ smoothingBuffer' = smoothing.buffer
                 /\ pushedScores' = Append(pushedScores, analysis.contextual)
                 /\ stage' = [kind |-> "detailed", hasBase |-> analysis.hasBase,
                              base |-> analysis.base,
                              contextual |-> analysis.contextual,
                              smoothed |-> smoothing.scores]
                 /\ result' = [op |-> "getDetailedEmotionScores", kind |-> "return",
                               computed |-> TRUE, value |-> smoothing.scores]
                 /\ now' = now + 1

\* getEmotionHistory returns a copy of the array
getEmotionHistory(history) == [i \in 1..Len(history) |-> history[i]]

GetEmotionHistory ==
  /\ result' = [op |-> "getEmotionHistory", kind |-> "return",
                value |-> getEmotionHistory(emotionHistory)]
  /\ UNCHANGED <<isInitialized, model, faceDetectionModel, frameCount, lastEmotionScores,
                 emotionHistory, smoothingBuffer, now, stage, pushedScores, pushedHistory,
                 pureVars>>

Init ==
  /\ DetectorConstructed
  /\ FusionIdle
  /\ CalibratorIdle
  /\ UnitsIdle

Next ==
  \/ \E outcome \in InitOutcomes : Initialize(outcome)
  \/ \E canvas \in FrameInputs :
       \E outcome \in OutcomesNow(~isInitialized \/ ~model) :
         DetectEmotion(canvas, outcome, MaxFrames)
  \/ \E canvas \in FrameInputs :
       \E outcome \in OutcomesNow(~isInitialized \/ ~model) :
         GetDetailedEmotionScores(canvas, outcome, MaxFrames)
  \/ Dispose

Spec == Init /\ [][Next]_vars

(***************************************************************************)
(* The smoothing window alone: a caller that only asks for detailed scores *)
(***************************************************************************)
MaxSmoothFrames == 6

SmoothInputs == {CanvasTense, CanvasAlert, CanvasBright, CanvasNoContext}

NextSmooth ==
  \E canvas \in SmoothInputs : GetDetailedEmotionScores(canvas, "ok", MaxSmoothFrames)

SpecSmooth == Init /\ [][NextSmooth]_vars

(***************************************************************************)
(* The history buffer over a long run: a camera that settles on one scene  *)
(* after its first SettleFrames frames                                     *)
(***************************************************************************)
MaxHistoryFrames == 150

SettleFrames == 2

HistoryInputs == {CanvasTense, CanvasBright}

\* the canvas shows what the previous frame showed
SameScene(canvas) ==
  /\ pushedHistory # <<>>
  /\ pushedHistory[Len(pushedHistory)].features = FacialFeaturesOf[canvas]

FilmFrame(canvas) ==
  /\ Len(pushedHistory) < SettleFrames \/ SameScene(canvas)
  /\ DetectEmotion(canvas, "ok", MaxHistoryFrames)

NextHistory ==
  \/ \E canvas \in HistoryInputs : FilmFrame(canvas)
  \/ GetEmotionHistory

SpecHistory == Init /\ [][NextHistory]_vars

(***************************************************************************)
(* Properties                                                              *)
(***************************************************************************)
Min(a, b) == IF a < b THEN a ELSE b

\* the last count elements of a sequence
LastOf(seq, count) == SubSeq(seq, Len(seq) - count + 1, Len(seq))

\* all seven values >= 0 and their sum within 1e-6 of 1
IsDistribution(s) ==
  /\ DOMAIN s.num = Labels
  /\ \A k \in Labels : s.num[k] >= 0
  /\ Abs(TotalNum(s) - s.den) <= s.den \div 1000000

\* C1: every ClassScores the base scorer, the contextual adjuster and the
\* temporal smoother return has seven values >= 0 that sum to 1 (within 1e-6),
\* whatever frames were processed before.
C1_ScoresAreDistributions ==
  stage.kind # "none" =>
    /\ stage.hasBase => IsDistribution(stage.base) /\ IsDistribution(stage.contextual)
    /\ IsDistribution(stage.smoothed)

\* C1 witness: a frame scored by the rules and smoothed over a full window
\* that has already evicted an entry.
C1_Witness ==
  /\ stage.kind = "detailed"
  /\ stage.hasBase
  /\ Len(pushedScores) > 5
  /\ Len(smoothingBuffer) = 5
  /\ stage.smoothed # stage.contextual

\* C2: a Prediction computed by detectEmotion carries as label an argmax of
\* the smoothed scores of its frame: no label has a strictly larger score.
C2_LabelIsArgmax ==
  (result.op = "detectEmotion" /\ result.kind = "return" /\ result.computed) =>
    /\ result.value.emotion \in Labels
    /\ \A k \in Labels :
         ~FGt(Val(lastEmotionScores, k), Val(lastEmotionScores, result.value.emotion))

\* C2 witness: a computed prediction over a window of several frames whose
\* label is not the default one.
C2_Witness ==
  /\ result.op = "detectEmotion" /\ result.kind = "return" /\ result.computed
  /\ Len(smoothingBuffer) >= 2
  /\ stage.smoothed # stage.contextual
  /\ result.value.emotion # "neutral"

\* C4: after n appended predictions the history buffer holds exactly the
\* min(n, 100) most recently appended entries in insertion order, and never
\* more than 100; getEmotionHistory returns them.
C4_HistoryHoldsMostRecent ==
  LET n == Len(pushedHistory)
  IN  /\ Len(emotionHistory) <= 100
      /\ Len(emotionHistory) = Min(n, 100)
      /\ emotionHistory = LastOf(pushedHistory, Min(n, 100))
      /\ result.op = "getEmotionHistory" => result.value = LastOf(pushedHistory, Min(n, 100))

\* C4 witness: 150 pushes leave pushes 51..150 in the buffer.
C4_Witness ==
  /\ Len(pushedHistory) = 150
  /\ Len(emotionHistory) = 100
  /\ emotionHistory[1].timestamp = 51
  /\ emotionHistory[100].timestamp = 150
  /\ result.op = "getEmotionHistory"

\* C5: the smoothing window holds at most 5 ClassScores, the most recently
\* pushed ones in push order.
C5_WindowHoldsMostRecent ==
  LET n == Len(pushedScores)
  IN  /\ Len(smoothingBuffer) <= 5
      /\ smoothingBuffer = LastOf(pushedScores, Min(n, 5))

\* C5 witness: a sixth push has evicted the oldest entry, which differed from
\* the one that is now the oldest.
C5_Witness ==
  /\ Len(pushedScores) = 6
  /\ Len(smoothingBuffer) = 5
  /\ pushedScores[1] # pushedScores[2]
  /\ smoothingBuffer[1] = pushedScores[2]

MaxCalibHistory == 5

\* scores with a tenths on neutral, b tenths on happy and c tenths on each of
\* the five other labels (normalized when a + b + 5c = 10)
ScoresOfTenths(a, b, c) ==
  Scores(BaseKeyOrder,
         [k \in Labels |-> CASE k = "neutral" -> a [] k = "happy" -> b [] OTHER -> c],
         10)

CalibScores ==
  {ScoresOfTenths(a, b, 0) : a \in 0..10, b \in 0..10}
    \cup {ScoresOfTenths(a, 5 - a, 1) : a \in 0..5}

HistoryEntry(emotion) ==
  [emotion |-> emotion, confidence |-> Frac(5, 10), timestamp |-> 0,
   features |-> getDefaultFacialFeatures]

RECURSIVE SeqsUpTo(_, _)
SeqsUpTo(set, len) ==
  IF len = 0 THEN {<<>>}
  ELSE LET shorter == SeqsUpTo(set, len - 1)
       IN  shorter \cup {Append(h, e) : h \in {x \in shorter : Len(x) = len - 1}, e \in set}

CalibHistories == SeqsUpTo({HistoryEntry("neutral"), HistoryEntry("happy")}, MaxCalibHistory)

InitCalibrate ==
  /\ DetectorConstructed
  /\ FusionIdle
  /\ UnitsIdle
  /\ calibArgs \in [scores : CalibScores, history : CalibHistories]
  /\ calibResult = Null

\* detectEmotion's call: adjustConfidence(maxProb, smoothedScores) against
\* the history
Calibrate ==
  /\ calibResult = Null
  /\ calibResult' = [confidence |-> adjustConfidence(DominantOf(calibArgs.scores).maxProb,
                                                     calibArgs.scores, calibArgs.history)]
  /\ UNCHANGED <<detectorVars, fusionVars, calibArgs, asyncVars, unitVars>>

NextCalibrate == Calibrate

SpecCalibrate == InitCalibrate /\ [][NextCalibrate]_vars

\* C3: for any finite scores and any history, the confidence returned by
\* adjustConfidence lies in [0.1, 0.95].
C3_ConfidenceInRange ==
  calibResult # Null =>
    /\ FGe(calibResult.confidence, Frac(1, 10))
    /\ FLe(calibResult.confidence, Frac(95, 100))

\* C3 witness: a one-hot distribution after five equal labels, whose
\* unclamped confidence would be 1 + 0.3 + 0.1.
C3_Witness ==
  /\ calibResult # Null
  /\ calibArgs.scores = ScoresOfTenths(10, 0, 0)
  /\ Len(calibArgs.history) = 5
  /\ calculateStabilityBonus(calibArgs.history) = Frac(1, 10)
  /\ calibResult.confidence = Frac(95, 100)

(***************************************************************************)
(* The fusion engine as a function: analyzeEmotions on given estimates     *)
(***************************************************************************)
\* an EmotionState whose dominant label carries `confidence` hundredths
PrimaryState(label, confidence) ==
  [dominant |-> label,
   confidence |-> Pct(confidence),
   scores |-> [k \in StateLabels |-> IF k = label THEN Pct(confidence) ELSE Pct(5)],
   icon |-> getEmotionIcon(label),
   timestamp |-> 0]

\* EmotionState.dominant is 'disgust' when it comes from the blendshape
\* analysis and 'disgusted' when it is a detector Prediction
PrimaryStates ==
  {PrimaryState(label, confidence) :
     label \in {"happy", "sad", "disgust", "disgusted"},
     confidence \in {30, 50, 60, 70, 80, 95}}

\* a probability vector with `confidence` hundredths on one label and the
\* rest spread evenly
PeakedProbabilities(label, confidence) ==
  [i \in 1..7 |-> IF FACE_EXPRESSION_LABELS[i] = label THEN Pct(confidence)
                  ELSE Frac(100 - confidence, 600)]

SecondaryEstimates ==
  {Undefined}
    \cup {FaceExpressions(PeakedProbabilities("happy", confidence)) :
            confidence \in {60, 90, 100}}
    \cup {FaceExpressions(PeakedProbabilities("disgusted", confidence)) :
            confidence \in {60, 90}}
    \cup {FaceExpressions(PeakedProbabilities("neutral", 40))}
    \cup {FaceExpressions([i \in 1..7 |-> Frac(1, 7)])}

AnalyzeEmotions(mediapipeEmotion, tensorflowEmotion) ==
  /\ fusionArgs' = [primary |-> mediapipeEmotion, secondary |-> tensorflowEmotion]
  /\ fusionResult' = analyzeEmotions(mediapipeEmotion, tensorflowEmotion, now)
  /\ UNCHANGED <<detectorVars, calibVars, asyncVars, unitVars>>

NextFusion ==
  \E mediapipeEmotion \in PrimaryStates, tensorflowEmotion \in SecondaryEstimates :
    AnalyzeEmotions(mediapipeEmotion, tensorflowEmotion)

SpecFusion == Init /\ [][NextFusion]_vars

\* the tier of a fused confidence: high from 0.8, medium from 0.6, else low
TierOf(confidence) ==
  IF FGe(confidence, Frac(8, 10)) THEN "high"
  ELSE IF FGe(confidence, Frac(6, 10)) THEN "medium"
  ELSE "low"

\* the secondary's dominant label in the primary's label space and its
\* confidence, for the arguments of the last call
SecondaryDominant ==
  LET d == getDominantExpression(fusionArgs.secondary)
  IN  [label |-> MappedEmotion(d.expression), confidence |-> d.confidence]

Fused == fusionResult # Null

FusedWithSecondary == Fused /\ fusionArgs.secondary # Undefined

Agreement == FusedWithSecondary /\ fusionArgs.primary.dominant = SecondaryDominant.label

LargeGapDisagreement ==
  /\ FusedWithSecondary
  /\ fusionArgs.primary.dominant # SecondaryDominant.label
  /\ FGt(FAbs(FSub(fusionArgs.primary.confidence, SecondaryDominant.confidence)), Frac(3, 10))

\* C7: Label is a closed set: the label of every Prediction, of every history
\* entry and of the primary and secondary of every FusionResult is one of the
\* seven labels (for a fusion whose primary estimate carries one of them).
C7_LabelsAreClosed ==
  /\ (result.op = "detectEmotion" /\ result.kind = "return") => result.value.emotion \in Labels
  /\ \A i \in 1..Len(emotionHistory) : emotionHistory[i].emotion \in Labels
  /\ (Fused /\ fusionArgs.primary.dominant \in Labels) =>
       /\ fusionResult.primary.dominant \in Labels
       /\ fusionResult.hasSecondary => fusionResult.secondary.dominant \in Labels

\* C8: without a secondary estimate the result's primary is the given primary,
\* there is no secondary field, the confidence is the primary's and the
\* reliability is its tier.
C8_PrimaryOnly ==
  (Fused /\ fusionArgs.secondary = Undefined) =>
    /\ fusionResult.primary = fusionArgs.primary
    /\ ~fusionResult.hasSecondary
    /\ fusionResult.confidence = fusionArgs.primary.confidence
    /\ fusionResult.reliability = TierOf(fusionArgs.primary.confidence)

\* C8 witness: a primary-only fusion at exactly 0.8, which is high.
C8_Witness ==
  /\ Fused
  /\ fusionArgs.secondary = Undefined
  /\ fusionArgs.primary.confidence = Frac(8, 10)
  /\ fusionResult.reliability = "high"

\* C9: on agreement the fused confidence is
\* min((primary + secondary dominant) / 2 + 0.15, 1.0) and the reliability is
\* the tier of the fused confidence.
C9_AgreementBoost ==
  Agreement =>
    LET boosted == FAdd(FDiv(FAdd(fusionArgs.primary.confidence, SecondaryDominant.confidence),
                             Frac(2, 1)),
                        Frac(15, 100))
        expected == IF FGt(boosted, One) THEN One ELSE boosted
    IN  /\ fusionResult.confidence = expected
        /\ fusionResult.reliability = TierOf(expected)

\* C9 witness: 0.70 and 0.90 on happy give 0.95, reliability high.
C9_Witness ==
  /\ Agreement
  /\ fusionArgs.primary.dominant = "happy"
  /\ fusionArgs.primary.confidence = Frac(70, 100)
  /\ SecondaryDominant.confidence = Frac(90, 100)
  /\ fusionResult.confidence = Frac(95, 100)
  /\ fusionResult.reliability = "high"

\* the result's primary is the secondary estimate turned into an EmotionState
PrimaryIsSecondarySide ==
  /\ fusionResult.primary.dominant = SecondaryDominant.label
  /\ fusionResult.primary.confidence = SecondaryDominant.confidence

\* C10 as stated: on a disagreement with confidences more than 0.3 apart the
\* more confident side becomes result.primary and the other side becomes
\* result.secondary, whichever side is the more confident, and the fused
\* confidence is the larger of the two.
C10_Original ==
  LargeGapDisagreement =>
    /\ fusionResult.confidence
         = FMax(fusionArgs.primary.confidence, SecondaryDominant.confidence)
    /\ IF FGt(SecondaryDominant.confidence, fusionArgs.primary.confidence)
       THEN /\ PrimaryIsSecondarySide
            /\ fusionResult.hasSecondary
            /\ fusionResult.secondary = fusionArgs.primary
       ELSE /\ fusionResult.primary = fusionArgs.primary
            /\ fusionResult.hasSecondary
            /\ fusionResult.secondary.dominant = SecondaryDominant.label
            /\ fusionResult.secondary.confidence = SecondaryDominant.confidence

\* C10 amended: on a disagreement with confidences more than 0.3 apart the
\* fused confidence is the larger of the two; when the secondary is the more
\* confident it becomes result.primary and the given primary becomes
\* result.secondary; when the primary is the more confident it stays
\* result.primary and the result has no secondary field.
C10_LargeGapTrustsMoreConfident ==
  LargeGapDisagreement =>
    /\ fusionResult.confidence
         = FMax(fusionArgs.primary.confidence, SecondaryDominant.confidence)
    /\ IF FGt(SecondaryDominant.confidence, fusionArgs.primary.confidence)
       THEN /\ PrimaryIsSecondarySide
            /\ fusionResult.hasSecondary
            /\ fusionResult.secondary = fusionArgs.primary
       ELSE /\ fusionResult.primary = fusionArgs.primary
            /\ ~fusionResult.hasSecondary

\* C10 witness: sad at 0.50 against happy at 0.90 gives primary happy,
\* secondary the given sad estimate, confidence 0.90, reliability medium.
C10_Witness ==
  /\ LargeGapDisagreement
  /\ fusionArgs.primary.dominant = "sad"
  /\ fusionArgs.primary.confidence = Frac(50, 100)
  /\ SecondaryDominant.label = "happy"
  /\ SecondaryDominant.confidence = Frac(90, 100)
  /\ fusionResult.primary.dominant = "happy"
  /\ fusionResult.secondary = fusionArgs.primary
  /\ fusionResult.confidence = Frac(90, 100)
  /\ fusionResult.reliability = "medium"

SmallGapDisagreement ==
  /\ FusedWithSecondary
  /\ fusionArgs.primary.dominant # SecondaryDominant.label
  /\ FLe(FAbs(FSub(fusionArgs.primary.confidence, SecondaryDominant.confidence)), Frac(3, 10))

\* 0.6 * primary + 0.4 * secondary
Blend(primaryValue, secondaryValue) ==
  FAdd(FMul(primaryValue, Frac(6, 10)), FMul(secondaryValue, Frac(4, 10)))

\* the secondary's probability of a label of the primary's label space
SecondaryProbability(k) ==
  fusionArgs.secondary.prob[IF k = "disgust" THEN "disgusted" ELSE k]

\* result.primary holds the 0.6/0.4 blend of the two distributions and its
\* label is an argmax of the blend
PrimaryIsBlend ==
  /\ DOMAIN fusionResult.primary.scores = StateLabels
  /\ \A k \in StateLabels :
       fusionResult.primary.scores[k]
         = Blend(ScoreOrZero(fusionArgs.primary.scores, k), SecondaryProbability(k))
  /\ fusionResult.primary.dominant \in StateLabels
  /\ \A k \in StateLabels :
       FLe(fusionResult.primary.scores[k],
           fusionResult.primary.scores[fusionResult.primary.dominant])

FusedIsBlendOfConfidences ==
  fusionResult.confidence
    = Blend(fusionArgs.primary.confidence, SecondaryDominant.confidence)

\* C11 as stated: on a disagreement with confidences at most 0.3 apart the
\* fused confidence is 0.6 * primary + 0.4 * secondary dominant, the
\* distributions are blended with the same weights, and result.primary is the
\* argmax label of the blend carrying the fused confidence.
C11_Original ==
  SmallGapDisagreement =>
    /\ FusedIsBlendOfConfidences
    /\ PrimaryIsBlend
    /\ fusionResult.primary.confidence = fusionResult.confidence

\* C11 amended: on a disagreement with confidences at most 0.3 apart the fused
\* confidence is 0.6 * primary + 0.4 * secondary dominant, the distributions
\* are blended with the same weights, and result.primary is the argmax label
\* of the blend carrying that label's blended score as its confidence.
C11_SmallGapBlends ==
  SmallGapDisagreement =>
    /\ FusedIsBlendOfConfidences
    /\ PrimaryIsBlend
    /\ fusionResult.primary.confidence
         = fusionResult.primary.scores[fusionResult.primary.dominant]

\* C11 witness: sad at 0.50 against happy at 0.60 fuses to 0.54; the blend's
\* argmax is sad with blended score 0.6 * 0.5 + 0.4 * (0.4 / 6).
C11_Witness ==
  /\ SmallGapDisagreement
  /\ fusionArgs.primary.dominant = "sad"
  /\ fusionArgs.primary.confidence = Frac(50, 100)
  /\ SecondaryDominant.label = "happy"
  /\ SecondaryDominant.confidence = Frac(60, 100)
  /\ fusionResult.confidence = Frac(54, 100)
  /\ fusionResult.primary.dominant = "sad"
  /\ fusionResult.primary.confidence = Frac(49, 150)

\* C12: in both disagreement branches the reliability is the tier of
\* fused confidence * 0.8, and the reported fused confidence is the
\* unpenalised one (the maximum on a large gap, the 0.6/0.4 blend otherwise).
C12_DisagreementPenalty ==
  (LargeGapDisagreement \/ SmallGapDisagreement) =>
    /\ fusionResult.reliability = TierOf(FMul(fusionResult.confidence, Frac(8, 10)))
    /\ fusionResult.confidence
         = IF LargeGapDisagreement
           THEN FMax(fusionArgs.primary.confidence, SecondaryDominant.confidence)
           ELSE Blend(fusionArgs.primary.confidence, SecondaryDominant.confidence)

\* C12 witness: sad at 0.80 against happy at 0.60 fuses to 0.72, which alone
\* would be medium; 0.72 * 0.8 = 0.576 is low.
C12_Witness ==
  /\ SmallGapDisagreement
  /\ fusionResult.confidence = Frac(72, 100)
  /\ TierOf(fusionResult.confidence) = "medium"
  /\ fusionResult.reliability = "low"

(***************************************************************************)
(* Faults and lifecycle of the detector                                    *)
(***************************************************************************)
\* the step is a detectEmotion call that came to an end
DetectEmotionEnds == result'.op = "detectEmotion"

\* the detector is Ready: initialize() has completed and the model is there
Ready == isInitialized /\ model

\* the fields every EmotionPrediction has
PredictionFields == {"emotion", "confidence", "timestamp"}

\* the call ended in the catch block of detectEmotion
FaultPrediction(r) == r.op = "detectEmotion" /\ r.kind = "return" /\ ~r.computed

\* C13 as stated: in steady state detectEmotion returns a Prediction instead
\* of throwing, and on a fault the Prediction has label neutral, a low
\* confidence and a diagnostic flag (a field beyond emotion, confidence and
\* timestamp).
C13_Original ==
  [][(Ready /\ DetectEmotionEnds) =>
       /\ result'.kind = "return"
       /\ FaultPrediction(result') =>
            /\ result'.value.emotion = "neutral"
            /\ FLt(result'.value.confidence, confidenceThreshold)
            /\ DOMAIN result'.value # PredictionFields]_vars

\* C13 amended: a detectEmotion call on a Ready detector returns a Prediction
\* instead of throwing, and on a fault the Prediction has label neutral and
\* confidence 0.5 and no field beyond emotion, confidence and timestamp.
C13_SteadyStateNeverRaises ==
  [][(Ready /\ DetectEmotionEnds) =>
       /\ result'.kind = "return"
       /\ FaultPrediction(result') =>
            /\ result'.value.emotion = "neutral"
            /\ result'.value.confidence = Frac(5, 10)
            /\ DOMAIN result'.value = PredictionFields]_vars

\* C13 witness: a fault on the second frame of a detector that the first
\* frame left Ready.
C13_Witness ==
  /\ FaultPrediction(result)
  /\ frameCount = 2
  /\ Len(pushedHistory) = 1
  /\ Ready

\* the step is a classify call (detectEmotion or getDetailedEmotionScores)
\* that came to an end
ClassifyEnds == result'.op \in {"detectEmotion", "getDetailedEmotionScores"}

\* C14: a classify call issued while the detector is not Ready fails with an
\* error: it produces no result and does not start initialization itself.
C14_ClassifyBeforeReadyFails ==
  [][(~Ready /\ ClassifyEnds) =>
       /\ result'.kind = "throw"
       /\ isInitialized' = isInitialized
       /\ model' = model
       /\ faceDetectionModel' = faceDetectionModel]_vars

(***************************************************************************)
(* initialize() await by await: several calls in flight on one detector    *)
(***************************************************************************)
MaxInitCalls == 2

\* who issues initialize(): a caller directly, or detectEmotion /
\* getDetailedEmotionScores through `if (!this.isInitialized || !this.model)`
InitCallers == {"initialize", "detectEmotion", "getDetailedEmotionScores"}

At(c, pc) == c \in 1..Len(initCalls) /\ initCalls[c].pc = pc

Goto(c, pc) == initCalls' = [initCalls EXCEPT ![c].pc = pc]

\* the call starts: `if (this.isInitialized) return`, else it runs up to
\* `await this.initializeTensorFlowBackend()`
BeginInitialize(via) ==
  /\ Len(initCalls) < MaxInitCalls
  /\ via = "initialize" \/ ~isInitialized \/ ~model
  /\ initCalls' = Append(initCalls,
                         [via |-> via, pc |-> IF isInitialized THEN "returned" ELSE "backend"])
  /\ UNCHANGED <<detectorVars, fusionVars, calibVars, unitVars, modelsCreated, faceModelsCreated>>

\* the backend is ready: createEnhancedEmotionModel() runs and is awaited
CreateModel(c) ==
  /\ At(c, "backend")
  /\ Goto(c, "model")
  /\ modelsCreated' = modelsCreated + 1
  /\ UNCHANGED <<detectorVars, fusionVars, calibVars, unitVars, faceModelsCreated>>

\* no backend, or the model cannot be built: the catch block rethrows
ModelFails(c) ==
  /\ At(c, "backend")
  /\ Goto(c, "threw")
  /\ UNCHANGED <<detectorVars, fusionVars, calibVars, unitVars, modelsCreated, faceModelsCreated>>

\* `this.model = ...`, then createFaceDetectionModel() runs and is awaited
AssignModel(c) ==
  /\ At(c, "model")
  /\ model' = TRUE
  /\ Goto(c, "face")
  /\ faceModelsCreated' = faceModelsCreated + 1
  /\ UNCHANGED <<isInitialized, faceDetectionModel, frameCount, lastEmotionScores,
                 emotionHistory, smoothingBuffer, now, result, stage, pushedScores,
                 pushedHistory, fusionVars, calibVars, unitVars, modelsCreated>>

\* `this.model = ...`, then createFaceDetectionModel() fails: the catch block
\* rethrows
FaceModelFails(c) ==
  /\ At(c, "model")
  /\ model' = TRUE
  /\ Goto(c, "threw")
  /\ UNCHANGED <<isInitialized, faceDetectionModel, frameCount, lastEmotionScores,
                 emotionHistory, smoothingBuffer, now, result, stage, pushedScores,
                 pushedHistory, fusionVars, calibVars, unitVars, modelsCreated, faceModelsCreated>>

\* `this.faceDetectionModel = ...; this.isInitialized = true`
FinishInitialize(c) ==
  /\ At(c, "face")
  /\ faceDetectionModel' = TRUE
  /\ isInitialized' = TRUE
  /\ Goto(c, "returned")
  /\ UNCHANGED <<model, frameCount, lastEmotionScores, emotionHistory, smoothingBuffer, now,
                 result, stage, pushedScores, pushedHistory, fusionVars, calibVars,
                 unitVars, modelsCreated, faceModelsCreated>>

NextInit ==
  \/ \E via \in InitCallers : BeginInitialize(via)
  \/ \E c \in 1..MaxInitCalls :
       \/ CreateModel(c)
       \/ ModelFails(c)
       \/ AssignModel(c)
       \/ FaceModelFails(c)
       \/ FinishInitialize(c)

SpecInit == Init /\ [][NextInit]_vars

\* C15: however initialize() calls are issued and interleaved between
\* construction and dispose(), the emotion model and the face-detection model
\* are each created at most once.
C15_ModelsCreatedOnce ==
  /\ modelsCreated <= 1
  /\ faceModelsCreated <= 1

\* the state dispose() is to leave behind
Cleared ==
  /\ emotionHistory = <<>>
  /\ smoothingBuffer = <<>>
  /\ ~model
  /\ ~faceDetectionModel
  /\ ~isInitialized

\* C16: right after dispose() returns, the history buffer and the smoothing
\* window are empty, both models are released and the detector is no longer
\* initialized, whatever frames were processed before.
C16_DisposeClears == result.op = "dispose" => Cleared

\* C16 witness: dispose() has returned after two frames had been taken.
C16_Witness ==
  /\ result.op = "dispose"
  /\ now >= 3
  /\ Cleared

(***************************************************************************)
(* Fusion with a secondary estimate whose probabilities are out of range   *)
(***************************************************************************)
\* probability vectors in the label order of FACE_EXPRESSION_LABELS with
\* entries outside [0, 1], in hundredths: one entry above 1, one negative
\* entry, a valid dominant entry next to an entry above 1, and a vector
\* whose entries are all out of range
OutOfRangeProbabilities ==
  {<<5, 150, 5, 5, 5, 5, 5>>,
   <<10, 60, -20, 10, 10, 10, 20>>,
   <<5, 90, 300, 0, 0, 0, 5>>,
   <<40, 30, 0, 0, 0, 130, 0>>,
   <<200, 200, 200, 200, 200, 200, 200>>,
   <<-10, -10, -10, -10, -10, -10, -10>>}

OutOfRangeEstimates ==
  {FaceExpressions([i \in 1..7 |-> Pct(v[i])]) : v \in OutOfRangeProbabilities}

NextFusionOutOfRange ==
  \E mediapipeEmotion \in PrimaryStates, tensorflowEmotion \in OutOfRangeEstimates :
    AnalyzeEmotions(mediapipeEmotion, tensorflowEmotion)

SpecFusionOutOfRange == Init /\ [][NextFusionOutOfRange]_vars

ValidProbability(x) == FLe(Zero, x) /\ FLe(x, One)

RECURSIVE SumOfValid(_, _)
SumOfValid(fe, upto) ==
  IF upto = 0 THEN Zero
  ELSE LET x == fe.prob[FACE_EXPRESSION_LABELS[upto]]
       IN  FAdd(SumOfValid(fe, upto - 1), IF ValidProbability(x) THEN x ELSE Zero)

\* the estimate with its invalid entries set to 0 and the rest renormalized;
\* no estimate at all when every entry is invalid
Sanitized(fe) ==
  IF \A k \in FaceLabels : ~ValidProbability(fe.prob[k]) THEN Undefined
  ELSE [threw |-> FALSE,
        prob |-> [k \in FaceLabels |->
                    IF ValidProbability(fe.prob[k])
                    THEN FDiv(fe.prob[k], SumOfValid(fe, 7))
                    ELSE Zero]]

\* C17: when the secondary's probability vector has out-of-range entries,
\* fusion gives what it gives for the vector with those entries set to 0 and
\* renormalized, and what it gives without a secondary when every entry is
\* invalid.
C17_InvalidEntriesDropped ==
  (FusedWithSecondary
     /\ \E k \in FaceLabels : ~ValidProbability(fusionArgs.secondary.prob[k])) =>
    fusionResult = analyzeEmotions(fusionArgs.primary, Sanitized(fusionArgs.secondary), now)

(***************************************************************************)
(* Constructing a FaceExpressions from a probability vector                *)
(***************************************************************************)
MaxVectorLen == 8

\* the numbers[] given to the constructor: every length up to MaxVectorLen
ProbabilityVectors ==
  UNION {[1..n -> {Zero, Frac(1, 2)}] : n \in 0..MaxVectorLen}

InitConstruct ==
  /\ DetectorConstructed
  /\ FusionIdle
  /\ CalibratorIdle
  /\ probabilities \in ProbabilityVectors
  /\ faceExpressions = Null
  /\ imageData = Null
  /\ features = Null
  /\ LoaderIdle
  /\ HooksIdle

Construct ==
  /\ faceExpressions = Null
  /\ faceExpressions' = FaceExpressions(probabilities)
  /\ UNCHANGED <<detectorVars, fusionVars, calibVars, asyncVars, probabilities, imageData,
                 features, loaderVars, hookVars>>

NextConstruct == Construct

SpecConstruct == InitConstruct /\ [][NextConstruct]_vars

\* C18: constructing a FaceExpressions from a vector whose length is not 7
\* throws and yields no object; a vector of length 7 is accepted and its i-th
\* entry becomes the probability of the i-th label of the label order.
C18_LengthSevenOnly ==
  faceExpressions # Null =>
    IF Len(probabilities) # 7
    THEN faceExpressions = [threw |-> TRUE]
    ELSE /\ ~faceExpressions.threw
         /\ DOMAIN faceExpressions.prob = FaceLabels
         /\ \A i \in 1..7 :
              faceExpressions.prob[FACE_EXPRESSION_LABELS[i]] = probabilities[i]

\* C18 witness: a vector of eight probabilities is rejected.
C18_Witness ==
  /\ faceExpressions # Null
  /\ Len(probabilities) = 8
  /\ faceExpressions.threw

(***************************************************************************)
(* FeatureExtractor: extractAdvancedFeatures on a pixel frame              *)
(***************************************************************************)
\* An ImageData: width, height and data, here one [r, g, b] per pixel (alpha
\* is never read), pixel (x, y) at index y * width + x.
PixelAt(image, x, y) == image.data[y * image.width + x]

\* data[(y * width + x) * 4]
RedAt(image, x, y) == PixelAt(image, x, y).r

FFloor(a) == a.n \div a.d

detectFaceRegion(image) ==
  LET centerX == Frac(image.width, 2)
      centerY == Frac(image.height, 2)
      faceWidth == FMul(Frac(image.width, 1), Frac(6, 10))
      faceHeight == FMul(Frac(image.height, 1), Frac(6, 10))
  IN  [x |-> FSub(centerX, FDiv(faceWidth, Frac(2, 1))),
       y |-> FSub(centerY, FDiv(faceHeight, Frac(2, 1))),
       width |-> faceWidth,
       height |-> faceHeight]

\* sum of f[1] .. f[n]
RECURSIVE SumTo(_, _)
SumTo(f, n) == IF n = 0 THEN 0 ELSE f[n] + SumTo(f, n - 1)

\* the largest r with r * r <= n: Math.sqrt(n) lies in [IsqrtFloor, IsqrtCeil]
IsqrtFloor(n) == CHOOSE r \in 0..1500 : r * r <= n /\ n < (r + 1) * (r + 1)

IsqrtCeil(n) == IF IsqrtFloor(n) * IsqrtFloor(n) = n THEN IsqrtFloor(n) ELSE IsqrtFloor(n) + 1

\* 3 * brightness of a pixel
Brightness3(image, x, y) ==
  PixelAt(image, x, y).r + PixelAt(image, x, y).g + PixelAt(image, x, y).b

\* 12 * |brightness - avgNeighbor|
Contrast12(image, x, y) ==
  Abs(4 * Brightness3(image, x, y)
        - 3 * (RedAt(image, x, y - 1) + RedAt(image, x, y + 1)
                 + RedAt(image, x - 1, y) + RedAt(image, x + 1, y)))

SobelX(image, x, y) ==
  RedAt(image, x + 1, y - 1) - RedAt(image, x - 1, y - 1)
    + 2 * RedAt(image, x + 1, y) - 2 * RedAt(image, x - 1, y)
    + RedAt(image, x + 1, y + 1) - RedAt(image, x - 1, y + 1)

SobelY(image, x, y) ==
  RedAt(image, x - 1, y - 1) - RedAt(image, x - 1, y + 1)
    + 2 * RedAt(image, x, y - 1) - 2 * RedAt(image, x, y + 1)
    + RedAt(image, x + 1, y - 1) - RedAt(image, x + 1, y + 1)

\* gx * gx + gy * gy
GradientSquared(image, x, y) ==
  SobelX(image, x, y) * SobelX(image, x, y) + SobelY(image, x, y) * SobelY(image, x, y)

\* the pixels of `for y in from.y..to.y-1, for x in from.x..to.x-1`, in loop order
LoopPixels(startX, endX, startY, endY) ==
  IF endX <= startX \/ endY <= startY THEN <<>>
  ELSE [i \in 1..((endX - startX) * (endY - startY)) |->
          [x |-> startX + ((i - 1) % (endX - startX)),
           y |-> startY + ((i - 1) \div (endX - startX))]]

\* the sum of a sequence of per-pixel values
SumOverPixels(values) == SumTo(values, Len(values))

RedOf(image, x, y) == PixelAt(image, x, y).r

GreenOf(image, x, y) == PixelAt(image, x, y).g

BlueOf(image, x, y) == PixelAt(image, x, y).b

GradientFloor(image, x, y) == IsqrtFloor(GradientSquared(image, x, y))

GradientCeil(image, x, y) == IsqrtCeil(GradientSquared(image, x, y))

\* 1 when gradientMagnitude > 30
IsEdge(image, x, y) == IF GradientSquared(image, x, y) > 900 THEN 1 ELSE 0

\* 12 * the face contrast term of a pixel, 0 on the border of the face region
FaceContrast12(image, x, y, startX, endX, startY, endY) ==
  IF x > startX /\ x < endX - 1 /\ y > startY /\ y < endY - 1
  THEN Contrast12(image, x, y)
  ELSE 0

\* the two fields calculateFaceFeatures sets
calculateFaceFeatures(brightness, contrast, image, faceRegion) ==
  LET startX == IF FFloor(faceRegion.x) > 0 THEN FFloor(faceRegion.x) ELSE 0
      endX == Min(image.width, FFloor(FAdd(faceRegion.x, faceRegion.width)))
      startY == IF FFloor(faceRegion.y) > 0 THEN FFloor(faceRegion.y) ELSE 0
      endY == Min(image.height, FFloor(FAdd(faceRegion.y, faceRegion.height)))
      pixels == LoopPixels(startX, endX, startY, endY)
      facePixelCount == Len(pixels)
      faceBrightness3 == SumOverPixels([i \in DOMAIN pixels |-> Brightness3(image, pixels[i].x, pixels[i].y)])
      faceContrast12 ==
        SumTo([i \in 1..Len(pixels) |->
                 FaceContrast12(image, pixels[i].x, pixels[i].y, startX, endX, startY, endY)],
              Len(pixels))
  IN  [faceBrightness |-> IF facePixelCount > 0
                          THEN Frac(faceBrightness3, 3 * facePixelCount * 255)
                          ELSE brightness,
       faceContrast |-> IF facePixelCount > 0
                        THEN Frac(faceContrast12, 12 * facePixelCount * 255)
                        ELSE contrast]

\* The fields of the feature vector that are read later.  gradientMagnitude is
\* a sum of square roots; it is given by the bounds [lo, hi] it lies in.
extractAdvancedFeatures(image, faceRegion) ==
  LET pixels == LoopPixels(1, image.width - 1, 1, image.height - 1)
      pixelCount == image.width * image.height
      brightness == Frac(SumOverPixels([i \in DOMAIN pixels |-> Brightness3(image, pixels[i].x, pixels[i].y)]), 3 * pixelCount * 255)
      contrast == Frac(SumOverPixels([i \in DOMAIN pixels |-> Contrast12(image, pixels[i].x, pixels[i].y)]), 12 * pixelCount * 255)
      face == calculateFaceFeatures(brightness, contrast, image, faceRegion)
  IN  [brightness |-> brightness,
       contrast |-> contrast,
       edgeDensity |-> Frac(SumOverPixels([i \in DOMAIN pixels |-> IsEdge(image, pixels[i].x, pixels[i].y)]), pixelCount),
       gradientMagnitude |->
         [lo |-> Frac(SumOverPixels([i \in DOMAIN pixels |-> GradientFloor(image, pixels[i].x, pixels[i].y)]), pixelCount),
          hi |-> Frac(SumOverPixels([i \in DOMAIN pixels |-> GradientCeil(image, pixels[i].x, pixels[i].y)]), pixelCount)],
       dominantColors |->
         [r |-> Frac(SumOverPixels([i \in DOMAIN pixels |-> RedOf(image, pixels[i].x, pixels[i].y)]), pixelCount * 255),
          g |-> Frac(SumOverPixels([i \in DOMAIN pixels |-> GreenOf(image, pixels[i].x, pixels[i].y)]), pixelCount * 255),
          b |-> Frac(SumOverPixels([i \in DOMAIN pixels |-> BlueOf(image, pixels[i].x, pixels[i].y)]), pixelCount * 255)],
       faceBrightness |-> face.faceBrightness,
       faceContrast |-> face.faceContrast]

MaxSide == 4

\* 8-bit pixels: black, white and pure red
PixelLevels == {[r |-> 0, g |-> 0, b |-> 0],
                [r |-> 255, g |-> 255, b |-> 255],
                [r |-> 255, g |-> 0, b |-> 0]}

\* a frame made of vertical or horizontal stripes
StripedFrame(width, height, vertical, stripe) ==
  [width |-> width,
   height |-> height,
   data |-> [i \in 0..(width * height - 1) |->
               stripe[IF vertical THEN i % width ELSE i \div width]]]

\* every striped frame of up to MaxSide by MaxSide pixels
Frames ==
  UNION {{StripedFrame(w, h, TRUE, stripe) : stripe \in [0..(w - 1) -> PixelLevels]}
           \cup {StripedFrame(w, h, FALSE, stripe) : stripe \in [0..(h - 1) -> PixelLevels]} :
         w \in 1..MaxSide, h \in 1..MaxSide}

InitExtract ==
  /\ DetectorConstructed
  /\ FusionIdle
  /\ CalibratorIdle
  /\ probabilities = Null
  /\ faceExpressions = Null
  /\ imageData \in Frames
  /\ features = Null
  /\ LoaderIdle
  /\ HooksIdle

\* analyzeImageForEmotions: the face region is detected on the frame and the
\* features are extracted from both
ExtractFeatures ==
  /\ features = Null
  /\ features' = extractAdvancedFeatures(imageData, detectFaceRegion(imageData))
  /\ UNCHANGED <<detectorVars, fusionVars, calibVars, asyncVars, probabilities,
                 faceExpressions, imageData, loaderVars, hookVars>>

NextExtract == ExtractFeatures

SpecExtract == InitExtract /\ [][NextExtract]_vars

InUnitInterval(x) == FLe(Zero, x) /\ FLe(x, One)

\* C19: every field of the extracted feature vector lies in [0, 1]
\* (gradientMagnitude is at least its lower bound, so that bound does).
C19_FeaturesNormalized ==
  features # Null =>
    /\ InUnitInterval(features.brightness)
    /\ InUnitInterval(features.contrast)
    /\ InUnitInterval(features.edgeDensity)
    /\ InUnitInterval(features.gradientMagnitude.lo)
    /\ InUnitInterval(features.faceBrightness)
    /\ InUnitInterval(features.faceContrast)
    /\ InUnitInterval(features.dominantColors.r)
    /\ InUnitInterval(features.dominantColors.g)
    /\ InUnitInterval(features.dominantColors.b)

(***************************************************************************)
(* C20: the smoothed value as a weighted mean                              *)
(***************************************************************************)
\* weight(i) = (i + 1) / N for the 0-based index i, written for the 1-based
\* position p = i + 1 of the entry in the window
WindowWeight(p, n) == Frac(p, n)

RECURSIVE WindowWeightedSum(_, _, _)
WindowWeightedSum(window, label, upto) ==
  IF upto = 0 THEN Zero
  ELSE FAdd(WindowWeightedSum(window, label, upto - 1),
            FMul(WindowWeight(upto, Len(window)), Val(window[upto], label)))

RECURSIVE WindowWeightTotal(_, _)
WindowWeightTotal(n, upto) ==
  IF upto = 0 THEN Zero
  ELSE FAdd(WindowWeightTotal(n, upto - 1), WindowWeight(upto, n))

WindowMean(window, label) ==
  FDiv(WindowWeightedSum(window, label, Len(window)),
       WindowWeightTotal(Len(window), Len(window)))

\* C20: when the smoothing window holds N > 1 entries, the smoothed value of
\* each label is sum(weight(i) * entry_i[label]) / sum(weight(i)) with
\* weight(i) = (i + 1) / N over the 0-based index i, and the weight the
\* smoother gives an entry is strictly larger than the weight it gives any
\* older entry.
C20_SmoothedIsWeightedMean ==
  (stage.kind # "none" /\ Len(smoothingBuffer) > 1) =>
    LET n == Len(smoothingBuffer)
    IN  /\ \A label \in Labels :
             Val(stage.smoothed, label) = WindowMean(smoothingBuffer, label)
        /\ \A older, newer \in 1..n :
             older < newer =>
               SmoothingWeight(older, n).n * SmoothingWeight(newer, n).d
                 < SmoothingWeight(newer, n).n * SmoothingWeight(older, n).d

\* C20 witness: a window of three entries whose oldest and newest differ, so
\* that the weighted mean differs from the newest entry and from the plain
\* mean of the newest and oldest values.
C20_Witness ==
  /\ stage.kind = "detailed"
  /\ Len(smoothingBuffer) = 3
  /\ smoothingBuffer[1] # smoothingBuffer[3]
  /\ stage.smoothed # stage.contextual
  /\ \E label \in Labels :
       /\ Val(smoothingBuffer[1], label) # Val(smoothingBuffer[3], label)
       /\ Val(stage.smoothed, label) = WindowMean(smoothingBuffer, label)

(***************************************************************************)
(* C21: the calibration formula                                            *)
(***************************************************************************)
\* the highest value of a ClassScores
HighestOf(s) ==
  CHOOSE v \in {Val(s, k) : k \in DOMAIN s.num} :
    \A k \in DOMAIN s.num : FLe(Val(s, k), v)

\* the second highest value: the highest among the other labels, for a label
\* that holds the highest value
SecondHighestOf(s) ==
  LET top == CHOOSE k \in DOMAIN s.num : Val(s, k) = HighestOf(s)
  IN  CHOOSE v \in {Val(s, k) : k \in DOMAIN s.num \ {top}} :
        \A k \in DOMAIN s.num \ {top} : FLe(Val(s, k), v)

\* rawConfidence + 0.3 * (highest - second highest) + stabilityBonus
AdjustedOf(rawConfidence, s, history) ==
  FAdd(FAdd(rawConfidence, FMul(Frac(3, 10), FSub(HighestOf(s), SecondHighestOf(s)))),
       calculateStabilityBonus(history))

\* the value before the clamp: adjusted, or max(0.3, adjusted * 0.8) when
\* adjusted < 0.6
ThresholdedOf(adjusted) ==
  IF FLt(adjusted, Frac(6, 10))
  THEN (IF FLt(FMul(adjusted, Frac(8, 10)), Frac(3, 10))
        THEN Frac(3, 10) ELSE FMul(adjusted, Frac(8, 10)))
  ELSE adjusted

\* a value clamped to [0.1, 0.95]
ClampedOf(x) ==
  IF FLt(x, Frac(1, 10)) THEN Frac(1, 10)
  ELSE IF FLt(Frac(95, 100), x) THEN Frac(95, 100) ELSE x

\* C21: the calibrated confidence is rawConfidence + 0.3 * (highest - second
\* highest smoothed score) + stabilityBonus, replaced by max(0.3, 0.8 * it)
\* when it is below 0.6, and then clamped to [0.1, 0.95].
C21_CalibrationFormula ==
  calibResult # Null =>
    calibResult.confidence =
      ClampedOf(ThresholdedOf(AdjustedOf(DominantOf(calibArgs.scores).maxProb,
                                         calibArgs.scores, calibArgs.history)))

\* C21 witness: 0.5 + 0.3 * 0.3 + 0 = 0.59 is below the threshold and is
\* scaled to 0.472.
C21_Witness ==
  /\ calibResult # Null
  /\ calibArgs.scores = ScoresOfTenths(5, 2, 0)
  /\ calibArgs.history = <<>>
  /\ calibResult.confidence = Frac(472, 1000)

(***************************************************************************)
(* C22: the stability bonus                                                *)
(***************************************************************************)
\* the number of the last 5 entries of h whose label is that of the last entry
RECURSIVE SameAsNewest(_, _)
SameAsNewest(h, back) ==
  IF back = 0 THEN 0
  ELSE SameAsNewest(h, back - 1)
       + (IF h[Len(h) - back + 1].emotion = h[Len(h)].emotion THEN 1 ELSE 0)

StabilityBonusOf(h) ==
  IF Len(h) < 5 THEN Zero ELSE Frac(SameAsNewest(h, 5), 50)

\* the confidence detectEmotion returns for the smoothed scores s when the
\* stability bonus is taken from the history h
ConfidenceWithBonusOf(s, h) ==
  ClampedOf(ThresholdedOf(
    FAdd(FAdd(HighestOf(s), FMul(Frac(3, 10), FSub(HighestOf(s), SecondHighestOf(s)))),
         StabilityBonusOf(h))))

ComputedPrediction ==
  /\ result.op = "detectEmotion"
  /\ result.kind = "return"
  /\ result.computed

\* C22: the stability bonus of a frame is 0 while the history holds fewer
\* than 5 entries and otherwise (number of the last 5 entries labelled like
\* the newest entry) / 5 * 0.1, between 0.02 and 0.1; the history it is taken
\* from is the one before the frame's own prediction is appended.
C22_StabilityBonus ==
  [][(DetectEmotionEnds /\ result'.kind = "return" /\ result'.computed) =>
       /\ calculateStabilityBonus(emotionHistory) = StabilityBonusOf(emotionHistory)
       /\ Len(emotionHistory) < 5 => StabilityBonusOf(emotionHistory) = Zero
       /\ Len(emotionHistory) >= 5 =>
            /\ FLe(Frac(2, 100), StabilityBonusOf(emotionHistory))
            /\ FLe(StabilityBonusOf(emotionHistory), Frac(1, 10))
       /\ result'.value.confidence = ConfidenceWithBonusOf(stage'.smoothed, emotionHistory)
    ]_vars

\* C22 witness: a frame whose history before the frame gives a bonus strictly
\* between the extremes, and whose confidence is not the one the history
\* after the append would give.
C22_Witness ==
  /\ ComputedPrediction
  /\ Len(emotionHistory) >= 6
  /\ LET before == SubSeq(emotionHistory, 1, Len(emotionHistory) - 1)
     IN  /\ FLt(Frac(2, 100), StabilityBonusOf(before))
         /\ FLt(StabilityBonusOf(before), Frac(1, 10))
         /\ result.value.confidence = ConfidenceWithBonusOf(stage.smoothed, before)
         /\ result.value.confidence # ConfidenceWithBonusOf(stage.smoothed, emotionHistory)

(***************************************************************************)
(* HistoryTracker.analytics: getEmotionAnalytics                           *)
(***************************************************************************)
\* emotions.reduce((acc, emotion) => { acc[emotion] = (acc[emotion] || 0) + 1 }, {}):
\* the keys in insertion order and the count of each
RECURSIVE emotionCounts(_, _)
emotionCounts(emotions, upto) ==
  IF upto = 0 THEN [keys |-> <<>>, count |-> <<>>]
  ELSE LET acc == emotionCounts(emotions, upto - 1)
           emotion == emotions[upto]
       IN  IF \E i \in 1..Len(acc.keys) : acc.keys[i] = emotion
           THEN [keys |-> acc.keys,
                 count |-> [i \in 1..Len(acc.keys) |->
                              IF acc.keys[i] = emotion THEN acc.count[i] + 1
                              ELSE acc.count[i]]]
           ELSE [keys |-> Append(acc.keys, emotion), count |-> Append(acc.count, 1)]

\* MaxByCount with `count >= max.count`: a later label wins a tie
MaxByCount_LaterWins(max, emotion, count) ==
  IF count >= max.count THEN [emotion |-> emotion, count |-> count] ELSE max

\* (max, [emotion, count]) => count > max.count ? { emotion, count } : max
MaxByCount(max, emotion, count) ==
  IF count > max.count THEN [emotion |-> emotion, count |-> count] ELSE max

\* Object.entries(emotionCounts).reduce(..., { emotion: 'neutral', count: 0 })
RECURSIVE ReduceMaxByCount(_, _)
ReduceMaxByCount(counts, upto) ==
  IF upto = 0 THEN [emotion |-> "neutral", count |-> 0]
  ELSE MaxByCount(ReduceMaxByCount(counts, upto - 1), counts.keys[upto], counts.count[upto])

\* the loop from the newest entry backward, starting at position i
RECURSIVE emotionDuration(_, _, _)
emotionDuration(history, dominantEmotion, i) ==
  IF i = 0 THEN 0
  ELSE IF history[i].emotion = dominantEmotion
       THEN 1 + emotionDuration(history, dominantEmotion, i - 1)
       ELSE 0

\* the number of positions whose label differs from the one before
transitions(emotions) ==
  Cardinality({i \in 2..Len(emotions) : emotions[i] # emotions[i - 1]})

\* confidences.reduce((sum, c) => sum + c, 0)
RECURSIVE SumOfConfidences(_, _)
SumOfConfidences(confidences, upto) ==
  IF upto = 0 THEN Zero
  ELSE FAdd(SumOfConfidences(confidences, upto - 1), confidences[upto])

\* confidences.reduce((sum, c) => sum + Math.pow(c - avgConfidence, 2), 0)
RECURSIVE SumOfSquaredDeviations(_, _, _)
SumOfSquaredDeviations(confidences, avgConfidence, upto) ==
  IF upto = 0 THEN Zero
  ELSE FAdd(SumOfSquaredDeviations(confidences, avgConfidence, upto - 1),
            FMul(FSub(confidences[upto], avgConfidence),
                 FSub(confidences[upto], avgConfidence)))

\* Math.max(0, 1 - Math.sqrt(confidenceVariance)), for a variance in [0, 1],
\* by the thousandths it lies between
confidenceStability(confidenceVariance) ==
  LET millionths == FFloor(FMul(confidenceVariance, Frac(1000000, 1)))
      lower == IsqrtFloor(millionths)
      upper == IF lower * lower = millionths /\ Frac(millionths, 1000000) = confidenceVariance
               THEN lower ELSE lower + 1
  IN  [lo |-> FMax(Zero, FSub(One, Frac(upper, 1000))),
       hi |-> FMax(Zero, FSub(One, Frac(lower, 1000)))]

getEmotionAnalytics(history) ==
  IF Len(history) = 0
  THEN [dominantEmotion |-> "neutral", emotionDuration |-> 0, transitionFrequency |-> Zero,
        confidenceStability |-> [lo |-> Zero, hi |-> Zero], averageConfidence |-> Zero]
  ELSE LET emotions == [i \in 1..Len(history) |-> history[i].emotion]
           confidences == [i \in 1..Len(history) |-> history[i].confidence]
           counts == emotionCounts(emotions, Len(emotions))
           dominantEmotion == ReduceMaxByCount(counts, Len(counts.keys)).emotion
           avgConfidence == FDiv(SumOfConfidences(confidences, Len(confidences)),
                                 Frac(Len(confidences), 1))
           confidenceVariance ==
             FDiv(SumOfSquaredDeviations(confidences, avgConfidence, Len(confidences)),
                  Frac(Len(confidences), 1))
       IN  [dominantEmotion |-> dominantEmotion,
            emotionDuration |-> emotionDuration(history, dominantEmotion, Len(history)),
            transitionFrequency |->
              Frac(transitions(emotions),
                   IF Len(emotions) - 1 > 1 THEN Len(emotions) - 1 ELSE 1),
            confidenceStability |-> confidenceStability(confidenceVariance),
            averageConfidence |-> avgConfidence]

GetEmotionAnalytics ==
  /\ result' = [op |-> "getEmotionAnalytics", kind |-> "return",
                value |-> getEmotionAnalytics(emotionHistory)]
  /\ UNCHANGED <<isInitialized, model, faceDetectionModel, frameCount, lastEmotionScores,
                 emotionHistory, smoothingBuffer, now, stage, pushedScores, pushedHistory,
                 pureVars>>

(***************************************************************************)
(* A short session that asks for the analytics between frames              *)
(***************************************************************************)
MaxAnalyticsFrames == 5

AnalyticsInputs == {CanvasTense, CanvasAlert, CanvasBright}

NextAnalytics ==
  \/ \E canvas \in AnalyticsInputs : DetectEmotion(canvas, "ok", MaxAnalyticsFrames)
  \/ GetEmotionAnalytics

SpecAnalytics == Init /\ [][NextAnalytics]_vars

(***************************************************************************)
(* C23: the analytics of the history buffer                                *)
(***************************************************************************)
Occurrences(h, label) == Cardinality({i \in 1..Len(h) : h[i].emotion = label})

\* the position of the first entry of h labelled `label` (one must exist)
FirstSeen(h, label) ==
  CHOOSE i \in 1..Len(h) :
    h[i].emotion = label /\ \A j \in 1..(i - 1) : h[j].emotion # label

\* k is the length of the trailing run of entries of h labelled `label`
IsTrailingRun(h, label, k) ==
  /\ k \in 0..Len(h)
  /\ \A i \in (Len(h) - k + 1)..Len(h) : h[i].emotion = label
  /\ k < Len(h) => h[Len(h) - k].emotion # label

AnalyticsReturned == result.op = "getEmotionAnalytics"

\* C23: getEmotionAnalytics returns as dominant label a label with the
\* highest occurrence count in the history buffer, the one first seen earliest
\* among those with that count; emotionDuration is the length of the trailing
\* run of entries carrying the dominant label; on an empty buffer the
\* dominant label is neutral and every numeric field is 0.
C23_Analytics ==
  AnalyticsReturned =>
    LET h == emotionHistory
        a == result.value
    IN  IF h = <<>>
        THEN /\ a.dominantEmotion = "neutral"
             /\ a.emotionDuration = 0
             /\ a.transitionFrequency = Zero
             /\ a.confidenceStability = [lo |-> Zero, hi |-> Zero]
             /\ a.averageConfidence = Zero
        ELSE /\ \E i \in 1..Len(h) : h[i].emotion = a.dominantEmotion
             /\ \A i \in 1..Len(h) :
                  \/ Occurrences(h, h[i].emotion) < Occurrences(h, a.dominantEmotion)
                  \/ /\ Occurrences(h, h[i].emotion) = Occurrences(h, a.dominantEmotion)
                     /\ FirstSeen(h, a.dominantEmotion) <= FirstSeen(h, h[i].emotion)
             /\ IsTrailingRun(h, a.dominantEmotion, a.emotionDuration)

\* C23 witness: two labels tie for the highest count, the one seen first is
\* returned, and the newest entry carries the other, so the duration is 0.
C23_Witness ==
  /\ AnalyticsReturned
  /\ Len(emotionHistory) >= 4
  /\ \E i \in 1..Len(emotionHistory) :
       /\ emotionHistory[i].emotion # result.value.dominantEmotion
       /\ Occurrences(emotionHistory, emotionHistory[i].emotion)
            = Occurrences(emotionHistory, result.value.dominantEmotion)
  /\ emotionHistory[Len(emotionHistory)].emotion # result.value.dominantEmotion
  /\ result.value.emotionDuration = 0

(***************************************************************************)
(* dispose() while calls are in flight                                     *)
(***************************************************************************)
\* The caller of this session issues no call while the last call that
\* returned is dispose(); calls issued before keep running.
IssueCall(via) ==
  /\ result.op # "dispose"
  /\ BeginInitialize(via)

\* detectEmotion / getDetailedEmotionScores on a detector that is initialized:
\* the call enters its try block at once and awaits analyzeImageForEmotions
IssueReady(via) ==
  /\ result.op # "dispose"
  /\ via # "initialize"
  /\ isInitialized /\ model
  /\ Len(initCalls) < MaxInitCalls
  /\ initCalls' = Append(initCalls, [via |-> via, pc |-> "analyze"])
  /\ frameCount' = IF via = "detectEmotion" THEN frameCount + 1 ELSE frameCount
  /\ UNCHANGED <<isInitialized, model, faceDetectionModel, lastEmotionScores, emotionHistory,
                 smoothingBuffer, now, result, stage, pushedScores, pushedHistory,
                 fusionVars, calibVars, unitVars, modelsCreated, faceModelsCreated>>

\* `await this.initialize()` has returned inside detectEmotion or
\* getDetailedEmotionScores: the call enters its try block and awaits
\* analyzeImageForEmotions
StartAnalysis(c) ==
  /\ At(c, "returned")
  /\ initCalls[c].via # "initialize"
  /\ Goto(c, "analyze")
  /\ frameCount' = IF initCalls[c].via = "detectEmotion" THEN frameCount + 1 ELSE frameCount
  /\ UNCHANGED <<isInitialized, model, faceDetectionModel, lastEmotionScores, emotionHistory,
                 smoothingBuffer, now, result, stage, pushedScores, pushedHistory,
                 fusionVars, calibVars, unitVars, modelsCreated, faceModelsCreated>>

\* the analysis of a detectEmotion call is done: the rest of the try block
FinishDetectEmotion(c, canvas) ==
  /\ At(c, "analyze")
  /\ initCalls[c].via = "detectEmotion"
  /\ Goto(c, "done")
  /\ DetectComputed(canvas)
  /\ UNCHANGED <<isInitialized, model, faceDetectionModel, frameCount, fusionVars, calibVars,
                 unitVars, modelsCreated, faceModelsCreated>>

\* the analysis of a getDetailedEmotionScores call is done:
\* `return this.applySmoothingFilter(scores)`
FinishDetailedScores(c, canvas) ==
  \E analysis \in {AnalysisOf[canvas]} :
  \E smoothing \in {applySmoothingFilter(smoothingBuffer, analysis.contextual)} :
    /\ At(c, "analyze")
    /\ initCalls[c].via = "getDetailedEmotionScores"
    /\ Goto(c, "done")
    /\ smoothingBuffer' = smoothing.buffer
    /\ pushedScores' = Append(pushedScores, analysis.contextual)
    /\ stage' = [kind |-> "detailed", hasBase |-> analysis.hasBase, base |-> analysis.base,
                 contextual |-> analysis.contextual, smoothed |-> smoothing.scores]
    /\ result' = [op |-> "getDetailedEmotionScores", kind |-> "return",
                  computed |-> TRUE, value |-> smoothing.scores]
    /\ now' = now + 1
    /\ UNCHANGED <<isInitialized, model, faceDetectionModel, frameCount, lastEmotionScores,
                   emotionHistory, pushedHistory, fusionVars, calibVars, unitVars,
                   modelsCreated, faceModelsCreated>>

InFlightInputs == {CanvasTense, CanvasBright}

NextDispose ==
  \/ \E via \in InitCallers : IssueCall(via)
  \/ \E via \in InitCallers : IssueReady(via)
  \/ \E c \in 1..MaxInitCalls :
       \/ CreateModel(c)
       \/ ModelFails(c)
       \/ AssignModel(c)
       \/ FaceModelFails(c)
       \/ FinishInitialize(c)
       \/ StartAnalysis(c)
       \/ \E canvas \in InFlightInputs : FinishDetectEmotion(c, canvas)
       \/ \E canvas \in InFlightInputs : FinishDetailedScores(c, canvas)
  \/ Dispose

SpecDispose == Init /\ [][NextDispose]_vars

\* what dispose() leaves: no models, not initialized, empty history and window
Disposed ==
  /\ ~model
  /\ ~faceDetectionModel
  /\ ~isInitialized
  /\ emotionHistory = <<>>
  /\ smoothingBuffer = <<>>

\* C24: once dispose() has returned, and while the caller issues no new
\* call, the history buffer and the smoothing window stay empty, both models
\* stay null and isInitialized stays false, also when calls that started
\* before dispose() complete afterwards.
C24_DisposedIsStable ==
  [][(result.op = "dispose" /\ Disposed) => Disposed']_vars

(***************************************************************************)
(* The secondary estimator's model loader                                  *)
(***************************************************************************)
MaxLoadCalls == 3

\* who calls loadModel(): a caller directly, or predictExpressions through
\* `if (!this.model) await this.loadModel()`
LoadCallers == {"loadModel", "predictExpressions"}

LoadAt(c, pc) == c \in 1..Len(loadCalls) /\ loadCalls[c].pc = pc

LoadGoto(c, pc) == loadCalls' = [loadCalls EXCEPT ![c].pc = pc]

\* the call starts: `if (this.model || this.isModelLoading) return`, else it
\* sets isModelLoading and awaits the timer
BeginLoadModel(via) ==
  /\ Len(loadCalls) < MaxLoadCalls
  /\ via = "loadModel" \/ ~secondaryModel
  /\ IF secondaryModel \/ isModelLoading
     THEN /\ loadCalls' = Append(loadCalls, [via |-> via, pc |-> "returned"])
          /\ UNCHANGED isModelLoading
     ELSE /\ loadCalls' = Append(loadCalls, [via |-> via, pc |-> "timeout"])
          /\ isModelLoading' = TRUE
  /\ UNCHANGED <<detectorVars, fusionVars, calibVars, asyncVars, probabilities,
                 faceExpressions, imageData, features, hookVars, secondaryModel,
                 secondaryModelsCreated>>

\* the timer has fired: createMockModel() runs and is awaited
CreateMockModel(c) ==
  /\ LoadAt(c, "timeout")
  /\ LoadGoto(c, "create")
  /\ UNCHANGED <<detectorVars, fusionVars, calibVars, asyncVars, probabilities,
                 faceExpressions, imageData, features, hookVars, secondaryModel, isModelLoading,
                 secondaryModelsCreated>>

\* createMockModel() rejects: the catch block rethrows, `finally` resets the flag
LoadModelFails(c) ==
  /\ LoadAt(c, "create")
  /\ LoadGoto(c, "threw")
  /\ isModelLoading' = FALSE
  /\ UNCHANGED <<detectorVars, fusionVars, calibVars, asyncVars, probabilities,
                 faceExpressions, imageData, features, hookVars, secondaryModel,
                 secondaryModelsCreated>>

\* `this.model = await this.createMockModel()`, then `finally` resets the flag
AssignLoadedModel(c) ==
  /\ LoadAt(c, "create")
  /\ LoadGoto(c, "returned")
  /\ secondaryModel' = TRUE
  /\ secondaryModelsCreated' = secondaryModelsCreated + 1
  /\ isModelLoading' = FALSE
  /\ UNCHANGED <<detectorVars, fusionVars, calibVars, asyncVars, probabilities,
                 faceExpressions, imageData, features, hookVars>>

\* dispose(): `if (this.model) { this.model.dispose(); this.model = null }`
DisposeSecondary ==
  /\ secondaryModel' = FALSE
  /\ secondaryModelsCreated' = 0
  /\ UNCHANGED <<detectorVars, fusionVars, calibVars, asyncVars, probabilities,
                 faceExpressions, imageData, features, hookVars, isModelLoading, loadCalls>>

NextLoad ==
  \/ \E via \in LoadCallers : BeginLoadModel(via)
  \/ \E c \in 1..MaxLoadCalls :
       \/ CreateMockModel(c)
       \/ LoadModelFails(c)
       \/ AssignLoadedModel(c)
  \/ DisposeSecondary

SpecLoad == Init /\ [][NextLoad]_vars

\* a loadModel() call completes in this step without throwing
LoadCompletes(c) ==
  /\ c \in 1..Len(loadCalls')
  /\ loadCalls'[c].pc = "returned"
  /\ c \in 1..Len(loadCalls) => loadCalls[c].pc # "returned"

\* C25: whenever a loadModel() call completes without throwing, the model is
\* loaded, also when the call was issued while another load was in progress;
\* and the model is created at most once between dispose() calls.
C25_LoadedOnReturn ==
  [][/\ \A c \in 1..MaxLoadCalls : LoadCompletes(c) => secondaryModel'
     /\ secondaryModelsCreated' <= 1]_vars

(***************************************************************************)
(* The useEmotionDetection hook                                            *)
(***************************************************************************)
\* how often initializeDetection may get past its first line, and how many
\* detectForVideo calls are followed after an activation
MaxInitRuns == 2

MaxDetections == 2

\* what a run of detectEmotions finds: the video not ready, the frame already
\* seen, a new frame with a face, a new frame without one
FrameKinds == {"notReady", "sameFrame", "face", "noFace"}

\* one run of detectEmotions: detectForVideo on a new frame, then
\* `animationFrameRef.current = requestAnimationFrame(detectEmotions)`
detectEmotions(h, kind) ==
  IF kind \in {"face", "noFace"} /\ h.faceLandmarkerRef
  THEN [h EXCEPT !.detections = h.detections + 1,
                 !.emotionState = IF kind = "face" THEN "analyzed" ELSE "neutral",
                 !.animationFramePending = TRUE]
  ELSE [h EXCEPT !.animationFramePending = TRUE]

\* the cleanups of the two effects that depend on isActive:
\* `isMounted = false` and cancelAnimationFrame
EffectCleanups(h) ==
  [h EXCEPT !.initRuns = [c \in 1..Len(h.initRuns) |->
                            [h.initRuns[c] EXCEPT !.isMounted = FALSE]],
            !.animationFramePending = FALSE]

\* the initialization effect: initializeDetection() up to its first await
InitializationEffect(h) ==
  IF ~h.isActive \/ h.isInitializedRef THEN h
  ELSE [h EXCEPT !.initRuns = Append(h.initRuns, [pc |-> "vision", isMounted |-> TRUE])]

\* the detection effect: nothing unless active with a landmarker and a video,
\* else detectEmotions() is run once
DetectionEffect(h, kind) ==
  IF ~h.isActive \/ ~h.faceLandmarkerRef THEN h ELSE detectEmotions(h, kind)

\* the parent renders the hook with another isActive: the cleanups of the
\* last render's effects run, then both effects
SetActive(isActive, kind) ==
  /\ emotionDetection.mounted
  /\ emotionDetection.isActive # isActive
  /\ isActive =>
       emotionDetection.isInitializedRef \/ Len(emotionDetection.initRuns) < MaxInitRuns
  /\ emotionDetection' =
       DetectionEffect(
         InitializationEffect(
           [EffectCleanups(emotionDetection) EXCEPT !.isActive = isActive,
                                                    !.detections = 0]),
         kind)
  /\ UNCHANGED <<detectorVars, fusionVars, calibVars, asyncVars, probabilities,
                 faceExpressions, imageData, features, loaderVars, realTimeDetection>>

HookRunAt(c, pcs) ==
  c \in 1..Len(emotionDetection.initRuns) /\ emotionDetection.initRuns[c].pc \in pcs

\* FilesetResolver.forVisionTasks resolved: `if (!isMounted) return`, else
\* FaceLandmarker.createFromOptions is awaited
VisionResolved(c) ==
  /\ HookRunAt(c, {"vision"})
  /\ emotionDetection' =
       [emotionDetection EXCEPT
          !.initRuns[c].pc = IF emotionDetection.initRuns[c].isMounted
                             THEN "landmarker" ELSE "returned"]
  /\ UNCHANGED <<detectorVars, fusionVars, calibVars, asyncVars, probabilities,
                 faceExpressions, imageData, features, loaderVars, realTimeDetection>>

\* the landmarker is created: `if (isMounted)` the two refs are set
LandmarkerCreated(c) ==
  /\ HookRunAt(c, {"landmarker"})
  /\ emotionDetection' =
       IF emotionDetection.initRuns[c].isMounted
       THEN [emotionDetection EXCEPT !.initRuns[c].pc = "returned",
                                     !.faceLandmarkerRef = TRUE,
                                     !.isInitializedRef = TRUE]
       ELSE [emotionDetection EXCEPT !.initRuns[c].pc = "returned"]
  /\ UNCHANGED <<detectorVars, fusionVars, calibVars, asyncVars, probabilities,
                 faceExpressions, imageData, features, loaderVars, realTimeDetection>>

\* either await rejects: the catch block sets the neutral state `if (isMounted)`
InitializationFails(c) ==
  /\ HookRunAt(c, {"vision", "landmarker"})
  /\ emotionDetection' =
       IF emotionDetection.initRuns[c].isMounted
       THEN [emotionDetection EXCEPT !.initRuns[c].pc = "returned",
                                     !.emotionState = "neutral"]
       ELSE [emotionDetection EXCEPT !.initRuns[c].pc = "returned"]
  /\ UNCHANGED <<detectorVars, fusionVars, calibVars, asyncVars, probabilities,
                 faceExpressions, imageData, features, loaderVars, realTimeDetection>>

\* the browser runs the pending animation frame callback
AnimationFrame(kind) ==
  /\ emotionDetection.animationFramePending
  /\ kind \in {"face", "noFace"} => emotionDetection.detections < MaxDetections
  /\ emotionDetection' = detectEmotions(emotionDetection, kind)
  /\ UNCHANGED <<detectorVars, fusionVars, calibVars, asyncVars, probabilities,
                 faceExpressions, imageData, features, loaderVars, realTimeDetection>>

\* the component unmounts: every cleanup runs, the landmarker is closed
UnmountEmotionDetection ==
  /\ emotionDetection.mounted
  /\ emotionDetection' =
       [EffectCleanups(emotionDetection) EXCEPT !.mounted = FALSE,
                                                !.faceLandmarkerRef = FALSE,
                                                !.isInitializedRef = FALSE]
  /\ UNCHANGED <<detectorVars, fusionVars, calibVars, asyncVars, probabilities,
                 faceExpressions, imageData, features, loaderVars, realTimeDetection>>

NextEmotionDetection ==
  \/ \E isActive \in BOOLEAN, kind \in FrameKinds : SetActive(isActive, kind)
  \/ \E c \in 1..MaxInitRuns :
       \/ VisionResolved(c)
       \/ LandmarkerCreated(c)
       \/ InitializationFails(c)
  \/ \E kind \in FrameKinds : AnimationFrame(kind)
  \/ UnmountEmotionDetection

\* The browser eventually settles the awaited promises and runs a pending
\* animation frame callback, and a playing video eventually shows a new frame.
SpecEmotionDetection ==
  /\ Init
  /\ [][NextEmotionDetection]_vars
  /\ WF_vars(\E c \in 1..MaxInitRuns : VisionResolved(c))
  /\ WF_vars(\E c \in 1..MaxInitRuns : LandmarkerCreated(c))
  /\ SF_vars(AnimationFrame("face"))

\* C26: once isActive is true, the video is present and the landmarker has
\* been initialized, detectForVideo is eventually called, unless isActive
\* changes or the component unmounts.
C26_LoopEventuallyStarts ==
  (/\ emotionDetection.mounted
   /\ emotionDetection.isActive
   /\ emotionDetection.faceLandmarkerRef)
    ~> (\/ emotionDetection.detections > 0
        \/ ~emotionDetection.isActive
        \/ ~emotionDetection.mounted)

(***************************************************************************)
(* The useRealTimeEmotionDetection hook                                    *)
(***************************************************************************)
\* how many processFrame chains (a pending animation frame callback, or a
\* call awaiting the detector) may exist at a time
MaxChains == 3

\* what a run of processFrame that passes its first guard finds
ProcessBranches == {"notReady", "throttled", "noContext", "process"}

RemoveTask(h, t) ==
  [h EXCEPT !.tasks = SubSeq(h.tasks, 1, t - 1) \o SubSeq(h.tasks, t + 1, Len(h.tasks))]

\* `animationFrameRef.current = requestAnimationFrame(processFrame)` by task t
ScheduleFrame(h, t) ==
  [h EXCEPT !.tasks = [i \in 1..Len(h.tasks) |->
                         IF i = t THEN [kind |-> "frame", current |-> TRUE]
                         ELSE [h.tasks[i] EXCEPT !.current = FALSE]]]

\* `if (animationFrameRef.current) cancelAnimationFrame(animationFrameRef.current)`:
\* the callback the ref names is dropped if it is still pending
cancelAnimationFrame(h) ==
  IF \E t \in 1..Len(h.tasks) : h.tasks[t].kind = "frame" /\ h.tasks[t].current
  THEN RemoveTask(h, CHOOSE t \in 1..Len(h.tasks) :
                       h.tasks[t].kind = "frame" /\ h.tasks[t].current)
  ELSE h

\* processFrame run by task t up to its first await or its return; every
\* processFrame that is ever run was created in a render with isActive and
\* isInitialized both true
processFrame(h, t, branch) ==
  IF ~h.detectorRef \/ ~h.canvasRef THEN RemoveTask(h, t)
  ELSE CASE branch = "notReady" -> RemoveTask(h, t)
         [] branch = "throttled" -> ScheduleFrame(h, t)
         [] branch = "noContext" -> RemoveTask(h, t)
         [] branch = "process" ->
              [h EXCEPT !.tasks[t] = [kind |-> "detect", current |-> FALSE],
                        !.startedAfterUnmount = h.startedAfterUnmount \/ ~h.mounted]

\* the effect that starts or stops the loop: its cleanup, then its body
LoopEffect(h, branch) ==
  LET cleaned == cancelAnimationFrame(h)
  IN  IF cleaned.isActive /\ cleaned.isInitialized
      THEN processFrame([cleaned EXCEPT !.tasks =
                           Append(cleaned.tasks, [kind |-> "frame", current |-> FALSE])],
                        Len(cleaned.tasks) + 1, branch)
      ELSE cleaned

\* the effect that calls initializeDetector(): up to `await ...initialize()`
InitializeEffect(h) ==
  IF h.isActive /\ ~h.detectorRef
  THEN [h EXCEPT !.detectorRef = TRUE, !.initializing = "pending"]
  ELSE h

RoomForChain == Len(realTimeDetection.tasks) < MaxChains

\* the parent renders the hook with another isActive
SetActiveRealTime(isActive, branch) ==
  /\ realTimeDetection.mounted
  /\ realTimeDetection.isActive # isActive
  /\ RoomForChain
  /\ realTimeDetection' =
       LoopEffect(InitializeEffect([realTimeDetection EXCEPT !.isActive = isActive]), branch)
  /\ UNCHANGED <<detectorVars, fusionVars, calibVars, asyncVars, probabilities,
                 faceExpressions, imageData, features, loaderVars, emotionDetection>>

\* `await detectorRef.current.initialize()` resolved: the canvas is created
\* and setIsInitialized(true) re-renders a mounted component
InitializeResolved(branch) ==
  /\ realTimeDetection.initializing = "pending"
  /\ RoomForChain
  /\ realTimeDetection' =
       IF realTimeDetection.mounted
       THEN LoopEffect([realTimeDetection EXCEPT !.canvasRef = TRUE,
                                                 !.initializing = "done",
                                                 !.isInitialized = TRUE], branch)
       ELSE [realTimeDetection EXCEPT !.canvasRef = TRUE, !.initializing = "done"]
  /\ UNCHANGED <<detectorVars, fusionVars, calibVars, asyncVars, probabilities,
                 faceExpressions, imageData, features, loaderVars, emotionDetection>>

\* it rejected: setIsInitialized(false) changes nothing
InitializeRejected ==
  /\ realTimeDetection.initializing = "pending"
  /\ realTimeDetection' = [realTimeDetection EXCEPT !.initializing = "failed"]
  /\ UNCHANGED <<detectorVars, fusionVars, calibVars, asyncVars, probabilities,
                 faceExpressions, imageData, features, loaderVars, emotionDetection>>

TaskIs(t, kind) ==
  t \in 1..Len(realTimeDetection.tasks) /\ realTimeDetection.tasks[t].kind = kind

\* the browser runs a pending animation frame callback
AnimationFrameRealTime(t, branch) ==
  /\ TaskIs(t, "frame")
  /\ realTimeDetection' =
       processFrame([realTimeDetection EXCEPT !.tasks[t].current = FALSE], t, branch)
  /\ UNCHANGED <<detectorVars, fusionVars, calibVars, asyncVars, probabilities,
                 faceExpressions, imageData, features, loaderVars, emotionDetection>>

\* `await detectorRef.current.detectEmotion(canvas)` resolved: the next line
\* calls getDetailedEmotionScores, or throws on a null detectorRef.current
\* into the catch block, after which `if (isActive)` reschedules
DetectEmotionResolved(t) ==
  /\ TaskIs(t, "detect")
  /\ realTimeDetection' =
       IF realTimeDetection.detectorRef
       THEN [realTimeDetection EXCEPT
               !.tasks[t].kind = "detailed",
               !.startedAfterUnmount =
                 realTimeDetection.startedAfterUnmount \/ ~realTimeDetection.mounted]
       ELSE ScheduleFrame(realTimeDetection, t)
  /\ UNCHANGED <<detectorVars, fusionVars, calibVars, asyncVars, probabilities,
                 faceExpressions, imageData, features, loaderVars, emotionDetection>>

\* `await detectorRef.current.getDetailedEmotionScores(canvas)` resolved:
\* setEmotionState, then `if (isActive)` reschedules
DetailedScoresResolved(t) ==
  /\ TaskIs(t, "detailed")
  /\ realTimeDetection' =
       ScheduleFrame([realTimeDetection EXCEPT
                        !.emotionState = IF realTimeDetection.mounted THEN "detected"
                                         ELSE realTimeDetection.emotionState], t)
  /\ UNCHANGED <<detectorVars, fusionVars, calibVars, asyncVars, probabilities,
                 faceExpressions, imageData, features, loaderVars, emotionDetection>>

\* UnmountCleanups without `detectorRef.current = null`
UnmountCleanups_KeepsDetector(h) ==
  [cancelAnimationFrame(h) EXCEPT !.mounted = FALSE]

\* the cleanups at unmount: cancelAnimationFrame, detectorRef.current.dispose(),
\* `detectorRef.current = null`
UnmountCleanups(h) ==
  [cancelAnimationFrame(h) EXCEPT !.mounted = FALSE, !.detectorRef = FALSE]

UnmountRealTime ==
  /\ realTimeDetection.mounted
  /\ realTimeDetection' = UnmountCleanups(realTimeDetection)
  /\ UNCHANGED <<detectorVars, fusionVars, calibVars, asyncVars, probabilities,
                 faceExpressions, imageData, features, loaderVars, emotionDetection>>

NextRealTime ==
  \/ \E isActive \in BOOLEAN, branch \in ProcessBranches : SetActiveRealTime(isActive, branch)
  \/ \E branch \in ProcessBranches : InitializeResolved(branch)
  \/ InitializeRejected
  \/ \E t \in 1..MaxChains :
       \/ \E branch \in ProcessBranches : AnimationFrameRealTime(t, branch)
       \/ DetectEmotionResolved(t)
       \/ DetailedScoresResolved(t)
  \/ UnmountRealTime

\* The browser eventually runs every pending animation frame callback and the
\* detector eventually settles every call.
SpecRealTime ==
  /\ Init
  /\ [][NextRealTime]_vars
  /\ \A t \in 1..MaxChains :
       /\ WF_vars(\E branch \in ProcessBranches : AnimationFrameRealTime(t, branch))
       /\ WF_vars(DetectEmotionResolved(t))
       /\ WF_vars(DetailedScoresResolved(t))

LoopStopped == realTimeDetection.tasks = <<>>

\* C27: after the component has unmounted, no detectEmotion or
\* getDetailedEmotionScores call is started, and the animation frame loop
\* eventually stops for good, also when a processFrame call was awaiting the
\* detector at the moment of unmount.
C27_UnmountStopsLoop ==
  /\ [](~realTimeDetection.startedAfterUnmount)
  /\ ~realTimeDetection.mounted ~> []LoopStopped

\* C27 witness: the component has unmounted while a processFrame call was
\* awaiting detectEmotion.
C27_Witness ==
  /\ ~realTimeDetection.mounted
  /\ \E t \in 1..Len(realTimeDetection.tasks) : realTimeDetection.tasks[t].kind = "detect"
  /\ ~realTimeDetection.startedAfterUnmount

(***************************************************************************)
(* A long run in which the canvas cannot be read now and then              *)
(***************************************************************************)
\* the frames of such a run: enough to fill the history and evict from it
MaxUnreadableFrames == 103

\* the canvas cannot be read before the first prediction was computed, or
\* once the history is full
UnreadableFrame ==
  /\ emotionHistory = <<>> \/ Len(emotionHistory) = maxHistorySize
  /\ DetectEmotion(CanvasTainted, "ok", MaxUnreadableFrames)

ReadableFrame(canvas) ==
  /\ Len(pushedHistory) < SettleFrames \/ SameScene(canvas)
  /\ DetectEmotion(canvas, "ok", MaxUnreadableFrames)

NextUnreadable ==
  \/ \E canvas \in HistoryInputs : ReadableFrame(canvas)
  \/ UnreadableFrame

SpecUnreadable == Init /\ [][NextUnreadable]_vars

\* what the history holds after one more entry has been appended to h
WithOneMore(h, newest) ==
  /\ newest # <<>>
  /\ IF Len(h) < 100
     THEN SubSeq(newest, 1, Len(newest) - 1) = h
     ELSE SubSeq(newest, 1, Len(newest) - 1) = SubSeq(h, 2, Len(h))

\* C28: a detectEmotion call that returns a computed prediction appends
\* exactly one entry to the history, and that newest entry carries the label,
\* confidence and timestamp of the returned prediction; a call that returns
\* the neutral fallback (neutral, 0.5) leaves the history and the smoothing
\* window as they were.
C28_OneEntryPerPrediction ==
  [][(DetectEmotionEnds /\ result'.kind = "return") =>
       IF result'.computed
       THEN /\ WithOneMore(emotionHistory, emotionHistory')
            /\ Len(pushedHistory') = Len(pushedHistory) + 1
            /\ LET newest == emotionHistory'[Len(emotionHistory')]
               IN  /\ newest.emotion = result'.value.emotion
                   /\ newest.confidence = result'.value.confidence
                   /\ newest.timestamp = result'.value.timestamp
       ELSE /\ result'.value.emotion = "neutral"
            /\ result'.value.confidence = Frac(1, 2)
            /\ emotionHistory' = emotionHistory
            /\ smoothingBuffer' = smoothingBuffer
            /\ pushedHistory' = pushedHistory
            /\ pushedScores' = pushedScores
    ]_vars

\* C28 witness: the neutral fallback was returned on a full history and a
\* full window, which are as the earlier computed frames left them.
C28_Witness ==
  /\ result.op = "detectEmotion"
  /\ result.kind = "return"
  /\ ~result.computed
  /\ Len(emotionHistory) = 100
  /\ Len(pushedHistory) > 100
  /\ Len(smoothingBuffer) = 5
  /\ emotionHistory[100].timestamp < result.value.timestamp

(***************************************************************************)
(* A frame loop that asks for the prediction and then for the detailed     *)
(* scores of every frame, as processFrame of useRealTimeEmotionDetection   *)
(***************************************************************************)
\* the calls of such a run, two per frame
MaxLoopCalls == 8

LoopInputs == {CanvasTense, CanvasBright, CanvasTainted}

\* `await detectorRef.current.detectEmotion(canvas)`
FrameDetectEmotion(canvas) ==
  /\ result.op # "detectEmotion"
  /\ DetectEmotion(canvas, "ok", MaxLoopCalls)

\* `await detectorRef.current.getDetailedEmotionScores(canvas)` on the canvas
\* that detectEmotion has just been given
FrameDetailedScores(canvas) ==
  /\ result.op = "detectEmotion"
  /\ IF result.computed THEN canvas # CanvasTainted /\ SameScene(canvas)
     ELSE canvas = CanvasTainted
  /\ GetDetailedEmotionScores(canvas, "ok", MaxLoopCalls)

NextFrameLoop ==
  \E canvas \in LoopInputs :
    \/ FrameDetectEmotion(canvas)
    \/ FrameDetailedScores(canvas)

SpecFrameLoop == Init /\ [][NextFrameLoop]_vars

\* the window `after` is the window `before` advanced by the entry `scores`
AdvancedBy(before, after, scores) ==
  /\ after # <<>>
  /\ after[Len(after)] = scores
  /\ SubSeq(after, 1, Len(after) - 1) =
       IF Len(before) < 5 THEN before ELSE SubSeq(before, 2, Len(before))

SuccessfulCall(op) ==
  /\ result'.op = op
  /\ result'.kind = "return"
  /\ result'.computed

\* C29: each successful detectEmotion call and each successful
\* getDetailedEmotionScores call pushes exactly one scores object onto the
\* one smoothing window, so that a loop making both calls per frame advances
\* the window by two entries per processed frame; getDetailedEmotionScores
\* never changes the history.
C29_TwoPushesPerFrame ==
  /\ [][/\ (SuccessfulCall("detectEmotion") \/ SuccessfulCall("getDetailedEmotionScores")) =>
             /\ AdvancedBy(smoothingBuffer, smoothingBuffer', stage'.contextual)
             /\ Len(pushedScores') = Len(pushedScores) + 1
        /\ result'.op = "getDetailedEmotionScores" =>
             /\ emotionHistory' = emotionHistory
             /\ pushedHistory' = pushedHistory
       ]_vars
  /\ [](result.op = "getDetailedEmotionScores" => Len(pushedScores) = 2 * Len(pushedHistory))

\* C29 witness: three frames have been processed, the window slid, and its
\* two newest entries are the two pushes of the last frame.
C29_Witness ==
  /\ result.op = "getDetailedEmotionScores"
  /\ result.kind = "return"
  /\ result.computed
  /\ Len(emotionHistory) = 3
  /\ Len(pushedScores) = 6
  /\ Len(smoothingBuffer) = 5
  /\ smoothingBuffer[5] = smoothingBuffer[4]
  /\ smoothingBuffer[3] # smoothingBuffer[4]

(***************************************************************************)
(* C30: the values the calibrated confidence can take                      *)
(***************************************************************************)
\* raw confidences from -0.5 to 1.5 in steps of 0.1
RawConfidences == {Frac(n, 10) : n \in (0 - 5)..15}

\* x lies in [0.3, 0.48) or in [0.6, 0.95]
InCalibratedRange(x) ==
  \/ FLe(Frac(3, 10), x) /\ FLt(x, Frac(48, 100))
  \/ FLe(Frac(6, 10), x) /\ FLe(x, Frac(95, 100))

\* C30: the confidence adjustConfidence returns is never below 0.3 and never
\* in [0.48, 0.6): it lies in [0.3, 0.48) or in [0.6, 0.95], for the raw
\* confidence detectEmotion passes and for any other, so that the lower
\* clamp bound 0.1 is never the result.
C30_CalibratedRange ==
  calibResult # Null =>
    /\ InCalibratedRange(calibResult.confidence)
    /\ calibResult.confidence # Frac(1, 10)
    /\ \A raw \in RawConfidences :
         InCalibratedRange(adjustConfidence(raw, calibArgs.scores, calibArgs.history))

\* C30 witness: 0.3 + 0.3 * 0.1 + 0 = 0.33 is scaled to 0.264 and raised to
\* 0.3, the least value returned.
C30_Witness ==
  /\ calibResult # Null
  /\ calibArgs.scores = ScoresOfTenths(2, 3, 1)
  /\ calibArgs.history = <<>>
  /\ calibResult.confidence = Frac(3, 10)
  /\ adjustConfidence(Frac(0 - 5, 10), calibArgs.scores, calibArgs.history) = Frac(3, 10)

====
